---- MODULE Spec2Model ----
(***************************************************************************)
(* Correlation and reporting engine of the log intelligence platform.      *)
(*                                                                         *)
(* The model starts where run_full_analysis_from_zip_bytes has the         *)
(* classified logs (orchestrator.py, after stage 7) and follows stages 8   *)
(* to 10: the incident narrative with its impact metrics, the predictive   *)
(* alerts, the novel-anomaly alerts and the primary correlation table.     *)
(*                                                                         *)
(* A pandas frame is a sequence of records.  sort_values is called with    *)
(* its default kind ("quicksort"), which is not stable: rows with equal    *)
(* keys come out in any order, so every sort is a choice among the orders  *)
(* that are sorted by the key.                                             *)
(***************************************************************************)
EXTENDS Integers, Sequences, FiniteSets

VARIABLES
    classified_logs,   \* the classified log table (input of stages 8-10)
    anomalies_kb,      \* the AnomalyTable of the knowledge base
    impact_metrics,    \* result of calculate_impact_metrics (stage 8)
    report,            \* incident narrative of generate_detailed_incident_report
    predictive_df,     \* result of generate_predictive_alerts
    novel_df,          \* result of identify_novel_anomalies
    output_df,         \* primary correlation table (submit_report.xlsx)
    pc,                \* position in the operation that is running
    message,           \* argument of generalize_message
    generalized,       \* value generalize_message returned
    kb_path,           \* argument of load_knowledge_base
    kb_df,             \* the rows of the catalog file at kb_path
    problems_kb,       \* the ProblemTable of the knowledge base
    log_files,         \* the *.txt files of the case directory
    logs_df,           \* result of process_all_logs_for_case
    raw_line,          \* argument of parse_log_line
    parsed_line,       \* value parse_log_line returned
    final_reports,     \* keys of final_reports (the artifacts of the run)
    results,           \* keys of the dict run_full_analysis_from_zip_bytes returned
    exception,         \* the exception the running operation raised
    success,           \* first component of process_zip_archive's result
    task_status,       \* status of the task of process_task_background
    progress,          \* 100 once the progress callback was called with 100 (0: below)
    tasks,             \* the task storage: task id (position) -> status, request
    lock,              \* TaskManager._lock: 0 if free, else the task whose complete_task holds it
    requests,          \* the batch-process requests and the position of their handlers
    background,        \* position of process_task_background of each task
    request_log,       \* RateLimitMiddleware.requests: client IP -> timestamps counted
    current_time,      \* time.time()
    forwarded,         \* client IP -> the times of its /api/v1 requests passed to call_next
    last_request       \* the request dispatched last and the status it was answered with

reportVars == <<classified_logs, anomalies_kb, impact_metrics, report,
                predictive_df, novel_df, output_df>>
textVars == <<message, generalized>>
kbVars == <<kb_path, kb_df, problems_kb>>
limiterVars == <<request_log, current_time, forwarded, last_request>>
parserVars == <<log_files, logs_df, raw_line, parsed_line>>
runVars == <<final_reports, results, exception>>
managerVars == <<tasks, lock, requests, background>>
taskVars == <<success, task_status, progress, managerVars>>

vars == <<reportVars, pc, textVars, kbVars, limiterVars, parserVars, runVars, taskVars>>

(***************************************************************************)
(* Bounds of the model.                                                    *)
(***************************************************************************)
MaxLogs == 3
MaxRankingLogs == 4
MaxTime == 2
MaxPieces == 3
MaxCatalogRows == 3
MaxLines == 3
MaxRunLogs == 2
MaxTail == 7
MaxStageLogs == 2
MAX_CONCURRENT_TASKS == 2
MaxRequests == 2
MaxFiles == 2
max_requests == 2
window_seconds == 2
MaxClock == 4
MaxDispatched == 6

\* NOVEL_ANOMALY_WINDOW_MINUTES, in the time unit of the model.
NOVEL_ANOMALY_WINDOW_MINUTES == 1

ProblemIds == {1, 2}
AnomalyIds == {1, 2}
FileNames == {"a.txt", "b.txt"}
Messages == {"m1", "m2"}

(***************************************************************************)
(* Generic frame helpers.                                                  *)
(***************************************************************************)
Range(s) == {s[i] : i \in DOMAIN s}

Min(S) == CHOOSE x \in S : \A y \in S : x <= y
Max(S) == CHOOSE x \in S : \A y \in S : x >= y

\* The rows of s at the positions in I, in the order of s.
RECURSIVE Take(_, _, _)
Take(s, I, i) ==
    IF i > Len(s) THEN <<>>
    ELSE IF i \in I THEN <<s[i]>> \o Take(s, I, i + 1)
    ELSE Take(s, I, i + 1)

\* DataFrame.drop_duplicates(subset=..., keep='first'); k[i] is the value of
\* the subset columns in row i.
DropDuplicatesLast(s, k) ==
    Take(s, {i \in DOMAIN s : \A j \in DOMAIN s : j > i => k[j] # k[i]}, 1)

DropDuplicates(s, k) ==
    Take(s, {i \in DOMAIN s : \A j \in 1..(i - 1) : k[j] # k[i]}, 1)

\* Series.unique(): the distinct values in order of first appearance.
Unique(s) == DropDuplicates(s, s)

\* The orders of the positions I of k that are ascending by key.
RECURSIVE SortOrders(_, _)
SortOrders(k, I) ==
    IF I = {} THEN {<<>>}
    ELSE UNION { { <<i>> \o rest : rest \in SortOrders(k, I \ {i}) } :
                 i \in {j \in I : \A m \in I : k[j] <= k[m]} }

\* DataFrame.sort_values(by) with the default (unstable) kind: the set of
\* frames it can return; k[i] is the sort key of row i.
SortValues(s, k) ==
    { [n \in 1..Len(s) |-> s[o[n]]] : o \in SortOrders(k, DOMAIN s) }

TimestampOf(s) == [i \in DOMAIN s |-> s[i].Timestamp]

\* Series.nunique() / the distinct values of a column.
Values(s) == {s[i] : i \in DOMAIN s}

\* The members of a finite set of integers in ascending order (the order of
\* the group keys of DataFrame.groupby, which sorts them).
RECURSIVE Ascending(_)
Ascending(S) ==
    IF S = {} THEN <<>>
    ELSE LET m == CHOOSE x \in S : \A y \in S : x <= y
         IN  <<m>> \o Ascending(S \ {m})

RECURSIVE Concat(_)
Concat(ss) == IF ss = <<>> THEN <<>> ELSE Head(ss) \o Concat(Tail(ss))

(***************************************************************************)
(* generalize_message (knowledge_base.py).  A text is a sequence of        *)
(* one-character strings; each re.sub scans the text from the left and     *)
(* replaces the leftmost matches, as re.sub does.                          *)
(***************************************************************************)
Digits == {"0", "1", "2", "3", "4", "5", "6", "7", "8", "9"}
UpperCase == <<"A", "B", "C", "D", "E", "F", "G", "H", "I", "J", "K", "L", "M",
               "N", "O", "P", "Q", "R", "S", "T", "U", "V", "W", "X", "Y", "Z">>
LowerCase == <<"a", "b", "c", "d", "e", "f", "g", "h", "i", "j", "k", "l", "m",
               "n", "o", "p", "q", "r", "s", "t", "u", "v", "w", "x", "y", "z">>
Letters == Range(UpperCase) \cup Range(LowerCase)
\* [0-9a-f]
HexDigits == Digits \cup {"a", "b", "c", "d", "e", "f"}
\* \w
WordChars == Letters \cup Digits \cup {"_"}
\* \s
Whitespace == {" "}

\* text.lower()
ToLower(text) ==
    [i \in DOMAIN text |->
        IF \E k \in DOMAIN UpperCase : UpperCase[k] = text[i]
        THEN LowerCase[CHOOSE k \in DOMAIN UpperCase : UpperCase[k] = text[i]]
        ELSE text[i]]

\* The end (exclusive) of the longest run of characters of C from position i.
RunEnd(text, i, C) ==
    CHOOSE j \in i..(Len(text) + 1) :
       /\ \A k \in i..(j - 1) : text[k] \in C
       /\ j = Len(text) + 1 \/ text[j] \notin C

WordAt(text, i) == i \in DOMAIN text /\ text[i] \in WordChars

\* \b between the positions i - 1 and i.
Boundary(text, i) == WordAt(text, i - 1) # WordAt(text, i)

\* \d{1,3} at position i: the end of the match, 0 without a match of a
\* whole run of digits.
OctetEnd(text, i) ==
    IF i \in DOMAIN text /\ text[i] \in Digits
    THEN LET e == RunEnd(text, i, Digits) IN IF e - i <= 3 THEN e ELSE 0
    ELSE 0

DotThenOctetEnd(text, e) ==
    IF e > 0 /\ e \in DOMAIN text /\ text[e] = "." THEN OctetEnd(text, e + 1) ELSE 0

\* r'\b\d{1,3}\.\d{1,3}\.\d{1,3}\.\d{1,3}\b' at position i: the end of the
\* match (exclusive), 0 without a match.
IpAddressEnd(text, i) ==
    LET e == DotThenOctetEnd(text,
                 DotThenOctetEnd(text, DotThenOctetEnd(text, OctetEnd(text, i))))
    IN  IF Boundary(text, i) /\ e > 0 /\ Boundary(text, e) THEN e ELSE 0

\* r'0x[0-9a-f]+'
HexValueEnd(text, i) ==
    IF /\ text[i] = "0" /\ i + 2 <= Len(text)
       /\ text[i + 1] = "x" /\ text[i + 2] \in HexDigits
    THEN RunEnd(text, i + 2, HexDigits)
    ELSE 0

\* r'(?:/[^/ ]*)+/?': from a slash up to the next space.
FilePathEnd(text, i) ==
    IF text[i] = "/" THEN RunEnd(text, i, Range(text) \ {" "}) ELSE 0

\* r'\b\d+\b': a whole run of digits between two word boundaries.
NumberEnd(text, i) ==
    IF text[i] \in Digits /\ Boundary(text, i)
    THEN LET e == RunEnd(text, i, Digits) IN IF Boundary(text, e) THEN e ELSE 0
    ELSE 0

IP_ADDRESS == <<"i", "p", " ", "a", "d", "d", "r", "e", "s", "s">>
HEX_VALUE == <<"h", "e", "x", " ", "v", "a", "l", "u", "e">>
FILE_PATH == <<"f", "i", "l", "e", " ", "p", "a", "t", "h">>
NUMBER == <<"n", "u", "m", "b", "e", "r">>

\* The end of the match, at position i, of the pattern that repl replaces.
MatchEnd(repl, text, i) ==
    CASE repl = IP_ADDRESS -> IpAddressEnd(text, i)
      [] repl = HEX_VALUE  -> HexValueEnd(text, i)
      [] repl = FILE_PATH  -> FilePathEnd(text, i)
      [] repl = NUMBER     -> NumberEnd(text, i)

\* re.sub(pattern, repl, text) from position i.
RECURSIVE ReSub(_, _, _)
ReSub(repl, text, i) ==
    IF i > Len(text) THEN <<>>
    ELSE LET e == MatchEnd(repl, text, i)
         IN  IF e > 0 THEN repl \o ReSub(repl, text, e)
             ELSE <<text[i]>> \o ReSub(repl, text, i + 1)

\* re.sub(r'[^\w\s]', ' ', text)
StripPunctuation(text) ==
    [i \in DOMAIN text |->
        IF text[i] \in WordChars \cup Whitespace THEN text[i] ELSE " "]

\* re.sub(r'\s+', ' ', text).strip()
NormalizeSpaces(text) ==
    Take(text, {i \in DOMAIN text :
                  \/ text[i] \notin Whitespace
                  \/ /\ i > 1 /\ text[i - 1] \notin Whitespace
                     /\ \E j \in (i + 1)..Len(text) : text[j] \notin Whitespace}, 1)

generalize_message(text) ==
    LET lowered == ToLower(text)
        no_ip   == ReSub(IP_ADDRESS, lowered, 1)
        no_hex  == ReSub(HEX_VALUE, no_ip, 1)
        no_path == ReSub(FILE_PATH, no_hex, 1)
        no_num  == ReSub(NUMBER, no_path, 1)
    IN  NormalizeSpaces(StripPunctuation(no_num))

(***************************************************************************)
(* load_knowledge_base (knowledge_base.py).  A path is known by whether it *)
(* exists and by its extension, os.path.splitext(kb_path)[1].              *)
(***************************************************************************)
\* The lower-cased extensions of the formats that are read.
SupportedExtensions ==
    { <<".", "c", "s", "v">>, <<".", "x", "l", "s", "x">>, <<".", "x", "l", "s">> }

\* Variant: the extension is looked at before the existence of the file.
KnowledgeBaseErrorExtensionFirst(path) ==
    IF ToLower(path.extension) \notin SupportedExtensions THEN "ValueError"
    ELSE IF ~ path.exists THEN "FileNotFoundError"
    ELSE "none"

\* The exception load_knowledge_base raises for a path, "none" if it reads
\* the file.
KnowledgeBaseError(path) ==
    IF ~ path.exists THEN "FileNotFoundError"
    ELSE IF ToLower(path.extension) \notin SupportedExtensions THEN "ValueError"
    ELSE "none"

\* anomalies_kb: the four columns of every row of the catalog.
AnomalyTable(kb) ==
    [i \in DOMAIN kb |->
        [anomaly_id          |-> kb[i].anomaly_id,
         problem_id          |-> kb[i].problem_id,
         Generalized_Anomaly |-> generalize_message(kb[i].Anomaly_Text),
         Anomaly_Text        |-> kb[i].Anomaly_Text]]

\* The columns [problem_id, Generalized_Problem, Problem_Text] of every row.
ProblemColumns(kb) ==
    [i \in DOMAIN kb |->
        [problem_id          |-> kb[i].problem_id,
         Generalized_Problem |-> generalize_message(kb[i].Problem_Text),
         Problem_Text        |-> kb[i].Problem_Text]]

\* Variant: drop_duplicates(subset=['problem_id']).
ProblemTableByProblemId(kb) ==
    LET rows == ProblemColumns(kb)
    IN  DropDuplicates(rows, [i \in DOMAIN rows |-> rows[i].problem_id])

\* problems_kb: .drop_duplicates() of the three columns.
ProblemTable(kb) ==
    LET rows == ProblemColumns(kb) IN DropDuplicates(rows, rows)

(***************************************************************************)
(* parse_log_line and process_all_logs_for_case (log_parser.py).  A line   *)
(* (stripped) is the sequence of its words, which single spaces separate.  *)
(***************************************************************************)
\* Words of the shape \d{4}-\d{2}-\d{2}T\d{2}:\d{2}:\d{2}; the last one is
\* no date.
TimestampWords ==
    {"2024-01-15T10:30:00", "2024-01-15T10:30:01", "2024-01-15T10:30:02",
     "2024-01-15T10:30:03", "2024-01-15T10:30:04", "2024-13-45T10:30:00"}

\* Words with a colon: a category followed by its colon.
CategoryWords == {"Database:"}

\* pd.NaT
NaT == 0 - 1

\* pd.to_datetime(errors='coerce') of a Timestamp cell, in the time unit of
\* the model; None and a word that is no date become NaT.
ToDatetime(timestamp) ==
    CASE timestamp = "2024-01-15T10:30:00" -> 0
      [] timestamp = "2024-01-15T10:30:01" -> 1
      [] timestamp = "2024-01-15T10:30:02" -> 2
      [] timestamp = "2024-01-15T10:30:03" -> 3
      [] timestamp = "2024-01-15T10:30:04" -> 4
      [] OTHER -> NaT

\* The position of the first word with a colon after the level, 0 if none.
CategoryPosition(line) ==
    IF \E k \in 3..Len(line) : line[k] \in CategoryWords
    THEN CHOOSE k \in 3..Len(line) :
            /\ line[k] \in CategoryWords
            /\ \A j \in 3..(k - 1) : line[j] \notin CategoryWords
    ELSE 0

\* re.match of timestamp, level (\w+), category ([^:]+) with its colon,
\* white space and message.
parse_log_line(line) ==
    LET k == CategoryPosition(line)
    IN  IF /\ Len(line) >= 2 /\ line[1] \in TimestampWords
           /\ line[2] \notin CategoryWords
           /\ k > 0 /\ k < Len(line)
        THEN [timestamp |-> line[1], level |-> line[2],
              message |-> SubSeq(line, k + 1, Len(line))]
        ELSE [timestamp |-> "None", level |-> "UNKNOWN", message |-> line]

\* ' INFO ' in line: the word INFO with a space on both sides.
ContainsInfo(line) == \E i \in 2..(Len(line) - 1) : line[i] = "INFO"

\* The characters of a word of a message.
Spell(word) ==
    CASE word = "INFO" -> <<"I", "N", "F", "O">>
      [] word = "timeout" -> <<"t", "i", "m", "e", "o", "u", "t">>
      [] word = "ERROR" -> <<"E", "R", "R", "O", "R">>
      [] word = "2024-01-15T10:30:00" -> <<"2", "0", "2", "4", "-", "0", "1">>
      [] OTHER -> <<"w">>

\* The characters of a message: its words with a space between them.
RECURSIVE MessageCharacters(_)
MessageCharacters(words) ==
    IF words = <<>> THEN <<>>
    ELSE IF Len(words) = 1 THEN Spell(words[1])
    ELSE Spell(words[1]) \o <<" ">> \o MessageCharacters(Tail(words))

\* A file that is read to its end.
NoReadError == 0 - 1

\* The lines the loop over a file gets before the read raises.
LinesRead(file) ==
    IF file.read_error = NoReadError THEN Len(file.lines) ELSE file.read_error

\* The records the loop appends to all_logs for the lines from i of a file.
RECURSIVE RecordsOfFile(_, _)
RecordsOfFile(file, i) ==
    IF i > LinesRead(file) THEN <<>>
    ELSE LET line   == file.lines[i]
             parsed == parse_log_line(line)
         IN  IF line = <<>> \/ ContainsInfo(line)
             THEN RecordsOfFile(file, i + 1)
             ELSE IF parsed.level \in {"WARNING", "ERROR"}
                  THEN <<[Timestamp   |-> parsed.timestamp,
                          Level       |-> parsed.level,
                          Message     |-> parsed.message,
                          file_name   |-> file.file_name,
                          line_number |-> i,
                          log         |-> line]>>
                       \o RecordsOfFile(file, i + 1)
                  ELSE RecordsOfFile(file, i + 1)

\* all_logs after the loop over log_files.
AllLogs(files) ==
    Concat([k \in DOMAIN files |-> RecordsOfFile(files[k], 1)])

\* to_datetime, dropna(subset=['Timestamp']) and the Generalized_Message
\* column.
ParsedRecords(all_logs) ==
    LET converted == [i \in DOMAIN all_logs |->
                         [Timestamp   |-> ToDatetime(all_logs[i].Timestamp),
                          Level       |-> all_logs[i].Level,
                          Message     |-> all_logs[i].Message,
                          file_name   |-> all_logs[i].file_name,
                          line_number |-> all_logs[i].line_number,
                          log         |-> all_logs[i].log,
                          Generalized_Message |->
                              generalize_message(MessageCharacters(all_logs[i].Message))]]
    IN  SelectSeq(converted, LAMBDA r : r.Timestamp # NaT)

\* The frames process_all_logs_for_case can return.
ProcessAllLogsForCaseResults(files) ==
    LET all_logs == AllLogs(files)
    IN  IF all_logs = <<>> THEN {<<>>}
        ELSE LET d == ParsedRecords(all_logs) IN SortValues(d, TimestampOf(d))

(***************************************************************************)
(* parse_log_line on the characters of a line (log_parser.py).             *)
(***************************************************************************)
\* regex = r"(\d{4}-\d{2}-\d{2}T\d{2}:\d{2}:\d{2})\s+(\w+)\s+([^:]+):\s+(.*)"
None == <<>>
UNKNOWN == <<"U", "N", "K", "N", "O", "W", "N">>

\* The shape of the timestamp: d stands for \d.
TimestampPattern ==
    <<"d", "d", "d", "d", "-", "d", "d", "-", "d", "d", "T",
      "d", "d", ":", "d", "d", ":", "d", "d">>

\* The first group matches at the start of the line.
MatchesTimestamp(line) ==
    /\ Len(line) >= Len(TimestampPattern)
    /\ \A i \in DOMAIN TimestampPattern :
          IF TimestampPattern[i] = "d" THEN line[i] \in Digits
          ELSE line[i] = TimestampPattern[i]

\* Variant: the category runs to the last colon of the line.
LastColon(line, i) ==
    IF \E k \in i..Len(line) : line[k] = ":"
    THEN CHOOSE k \in i..Len(line) :
            line[k] = ":" /\ \A j \in (k + 1)..Len(line) : line[j] # ":"
    ELSE 0

\* [^:]+ from position i stops before the first colon: its position, 0 if
\* there is none.
FirstColon(line, i) ==
    IF \E k \in i..Len(line) : line[k] = ":"
    THEN CHOOSE k \in i..Len(line) :
            line[k] = ":" /\ \A j \in i..(k - 1) : line[j] # ":"
    ELSE 0

\* re.match(regex, line): the four groups, or None.  Every quantifier is
\* greedy; the white space before the category gives its last character
\* back when a colon follows it.
re_match(line) ==
    IF ~MatchesTimestamp(line) THEN None
    ELSE LET t == Len(TimestampPattern) + 1
             a == RunEnd(line, t, Whitespace)
             b == RunEnd(line, a, WordChars)
             c == RunEnd(line, b, Whitespace)
             s == IF c <= Len(line) /\ line[c] = ":" /\ c - b >= 2
                  THEN c - 1 ELSE c
             d == FirstColon(line, s)
             e == RunEnd(line, d + 1, Whitespace)
         IN  IF a > t /\ b > a /\ c > b /\ d > s /\ e > d + 1
             THEN << SubSeq(line, 1, t - 1), SubSeq(line, a, b - 1),
                     SubSeq(line, s, d - 1), SubSeq(line, e, Len(line)) >>
             ELSE None

\* parse_log_line(line) on characters: (timestamp, level, category, message).
parse_line(line) ==
    LET match == re_match(line)
    IN  IF match # None THEN match ELSE << None, UNKNOWN, UNKNOWN, line >>

(***************************************************************************)
(* calculate_impact_metrics (report_generator.py).                         *)
(***************************************************************************)
\* classified_logs[(Level == 'WARNING') & (final_problem_id != 0)]
ReportableWarnings(logs) ==
    SelectSeq(logs, LAMBDA r : r.Level = "WARNING" /\ r.final_problem_id # 0)

\* The subset columns ['final_anomaly_id', 'final_problem_id'] of each row.
AnomalyProblemKey(s) ==
    [i \in DOMAIN s |-> <<s[i].final_anomaly_id, s[i].final_problem_id>>]

\* Variant: keep='last'.
DeduplicatedWarningsKeepLast(logs) ==
    LET rw == ReportableWarnings(logs)
    IN  DropDuplicatesLast(rw, AnomalyProblemKey(rw))

\* reportable_warnings.drop_duplicates(subset=[final_anomaly_id,
\* final_problem_id], keep='first')
DeduplicatedWarnings(logs) ==
    LET rw == ReportableWarnings(logs)
    IN  DropDuplicates(rw, AnomalyProblemKey(rw))

\* Impact_Score = anomaly_count * unique_systems_affected
ImpactScore(anomaly_count, unique_systems_affected) ==
    anomaly_count * unique_systems_affected

\* Variant: the metrics are taken before the duplicates are dropped.
ImpactDataBeforeDeduplication(logs) ==
    LET rw   == ReportableWarnings(logs)
        pids == Ascending({rw[i].final_problem_id : i \in DOMAIN rw})
        Group(p) == SelectSeq(rw, LAMBDA r : r.final_problem_id = p)
    IN  [n \in DOMAIN pids |->
           LET g == Group(pids[n])
               count   == Len(g)
               nunique == Cardinality({g[i].file_name : i \in DOMAIN g})
           IN  [problem_id              |-> pids[n],
                anomaly_count           |-> count,
                unique_systems_affected |-> nunique,
                Impact_Score            |-> ImpactScore(count, nunique)]]

\* groupby('final_problem_id').agg(count, nunique) plus the Impact_Score
\* column: one row per problem id, in ascending order of the id.
ImpactData(logs) ==
    LET dw   == DeduplicatedWarnings(logs)
        pids == Ascending({dw[i].final_problem_id : i \in DOMAIN dw})
        Group(p) == SelectSeq(dw, LAMBDA r : r.final_problem_id = p)
    IN  [n \in DOMAIN pids |->
           LET g == Group(pids[n])
               count   == Len(g)
               nunique == Cardinality({g[i].file_name : i \in DOMAIN g})
           IN  [problem_id              |-> pids[n],
                anomaly_count           |-> count,
                unique_systems_affected |-> nunique,
                Impact_Score            |-> ImpactScore(count, nunique)]]

\* Variant: ascending=True.
ImpactSortKeyAscending(d) == [i \in DOMAIN d |-> d[i].Impact_Score]

\* The sort keys of sort_values(by='Impact_Score', ascending=False).
ImpactSortKey(d) == [i \in DOMAIN d |-> 0 - d[i].Impact_Score]

\* The frames calculate_impact_metrics can return.
CalculateImpactMetrics(logs) ==
    IF ReportableWarnings(logs) = <<>> THEN {<<>>}
    ELSE LET d == ImpactData(logs) IN SortValues(d, ImpactSortKey(d))

(***************************************************************************)
(* The earliest ERROR of each problem (report_generator.py 143-152,        *)
(* orchestrator.py 407-418).                                               *)
(***************************************************************************)
\* Variant: the ERRORs are not filtered by final_problem_id.
AllErrors(logs) == SelectSeq(logs, LAMBDA r : r.Level = "ERROR")

\* classified_logs[(Level == 'ERROR') & (final_problem_id != 0)]
ClassifiedErrors(logs) ==
    SelectSeq(logs, LAMBDA r : r.Level = "ERROR" /\ r.final_problem_id # 0)

ProblemKey(s) == [i \in DOMAIN s |-> s[i].final_problem_id]

\* Variant: keep='last'.
ErrorDetailsKeepLast(logs) ==
    LET e == SelectSeq(logs, LAMBDA r : r.Level = "ERROR" /\ r.final_problem_id # 0)
    IN  { DropDuplicatesLast(sorted, [i \in DOMAIN sorted |-> sorted[i].final_problem_id]) :
            sorted \in SortValues(e, TimestampOf(e)) }

\* .sort_values('Timestamp').drop_duplicates(subset=['final_problem_id'],
\* keep='first'): the frames it can return.
ErrorDetails(logs) ==
    LET e == ClassifiedErrors(logs)
    IN  { DropDuplicates(sorted, ProblemKey(sorted)) :
            sorted \in SortValues(e, TimestampOf(e)) }

\* error_details.set_index('final_problem_id').to_dict('index')
ErrorMap(error_details) ==
    [p \in {error_details[i].final_problem_id : i \in DOMAIN error_details} |->
        LET i == CHOOSE j \in DOMAIN error_details :
                     error_details[j].final_problem_id = p
        IN  error_details[i]]

(***************************************************************************)
(* generate_detailed_incident_report (report_generator.py).                *)
(***************************************************************************)
\* rank = 1
FirstRank == 1

\* Variant: a skipped problem takes a rank.
RECURSIVE IncidentEntriesSkipTakesRank(_, _, _, _)
IncidentEntriesSkipTakesRank(impact, error_map, n, rank) ==
    IF n > Len(impact) THEN <<>>
    ELSE IF impact[n].problem_id \notin DOMAIN error_map
         THEN IncidentEntriesSkipTakesRank(impact, error_map, n + 1, rank + 1)
         ELSE <<[rank                    |-> rank,
                 problem_id              |-> impact[n].problem_id,
                 Impact_Score            |-> impact[n].Impact_Score,
                 anomaly_count           |-> impact[n].anomaly_count,
                 unique_systems_affected |-> impact[n].unique_systems_affected]>>
              \o IncidentEntriesSkipTakesRank(impact, error_map, n + 1, rank + 1)

\* The loop over impact_metrics.iterrows(): a problem without ERROR details
\* is skipped and takes no rank.
RECURSIVE IncidentEntries(_, _, _, _)
IncidentEntries(impact, error_map, n, rank) ==
    IF n > Len(impact) THEN <<>>
    ELSE IF impact[n].problem_id \notin DOMAIN error_map
         THEN IncidentEntries(impact, error_map, n + 1, rank)
         ELSE <<[rank                    |-> rank,
                 problem_id              |-> impact[n].problem_id,
                 Impact_Score            |-> impact[n].Impact_Score,
                 anomaly_count           |-> impact[n].anomaly_count,
                 unique_systems_affected |-> impact[n].unique_systems_affected]>>
              \o IncidentEntries(impact, error_map, n + 1, rank + 1)

(***************************************************************************)
(* generate_predictive_alerts (report_generator.py).                       *)
(***************************************************************************)
\* Variant: the occurred anomalies are read from the ERROR rows.
AlreadyOccurredAnomaliesOfErrors(logs, problem_id) ==
    LET w  == SelectSeq(logs, LAMBDA r : r.Level = "ERROR"
                                        /\ r.final_problem_id = problem_id)
        ow == DropDuplicates(w, AnomalyProblemKey(w))
    IN  Values(Unique([i \in DOMAIN ow |-> ow[i].final_anomaly_id]))

\* already_occurred_anomalies of one problem: final_anomaly_id of the
\* deduplicated WARNINGs with final_problem_id == problem_id.
AlreadyOccurredAnomalies(logs, problem_id) ==
    LET w  == SelectSeq(logs, LAMBDA r : r.Level = "WARNING"
                                        /\ r.final_problem_id = problem_id)
        ow == DropDuplicates(w, AnomalyProblemKey(w))
    IN  Values(Unique([i \in DOMAIN ow |-> ow[i].final_anomaly_id]))

\* Variant: .iloc[-1].
TriggerErrorLogsLast(detected_errors, problem_id) ==
    LET e == SelectSeq(detected_errors,
                       LAMBDA r : r.final_problem_id = problem_id)
    IN  { sorted[Len(sorted)] : sorted \in SortValues(e, TimestampOf(e)) }

\* detected_errors[final_problem_id == problem_id].sort_values('Timestamp')
\* .iloc[0]: the rows it can be.
TriggerErrorLogs(detected_errors, problem_id) ==
    LET e == SelectSeq(detected_errors,
                       LAMBDA r : r.final_problem_id = problem_id)
    IN  { sorted[1] : sorted \in SortValues(e, TimestampOf(e)) }

\* The alerts of one problem: one per AnomalyTable row of the problem whose
\* anomaly has not occurred.
PredictionsFor(logs, kb, problem_id, trigger_error_log) ==
    LET potential_warnings_kb ==
            SelectSeq(kb, LAMBDA a : a.problem_id = problem_id)
        occurred == AlreadyOccurredAnomalies(logs, problem_id)
        missing  == SelectSeq(potential_warnings_kb,
                              LAMBDA a : a.anomaly_id \notin occurred)
    IN  [i \in DOMAIN missing |->
           [problem_id           |-> problem_id,
            trigger_time         |-> trigger_error_log.Timestamp,
            trigger_log          |-> trigger_error_log.log,
            predicted_anomaly_id |-> missing[i].anomaly_id]]

\* The frames generate_predictive_alerts can return.
GeneratePredictiveAlertsResults(logs, kb) ==
    LET detected_errors == ClassifiedErrors(logs)
        unique_problem_ids == Unique(ProblemKey(detected_errors))
    IN  IF detected_errors = <<>> THEN {<<>>}
        ELSE { Concat([n \in DOMAIN unique_problem_ids |->
                         PredictionsFor(logs, kb, unique_problem_ids[n],
                                        trigger[unique_problem_ids[n]])]) :
               trigger \in { t \in [Values(unique_problem_ids) -> Range(detected_errors)] :
                               \A p \in Values(unique_problem_ids) :
                                   t[p] \in TriggerErrorLogs(detected_errors, p) } }

(***************************************************************************)
(* identify_novel_anomalies (report_generator.py).                         *)
(***************************************************************************)
\* classified_logs[(Level == 'WARNING') & (final_problem_id == 0)]
UnclassifiedWarnings(logs) ==
    SelectSeq(logs, LAMBDA r : r.Level = "WARNING" /\ r.final_problem_id = 0)

\* The subset columns ['Generalized_Message', 'file_name'] of each row.
MessageFileKey(s) ==
    [i \in DOMAIN s |-> <<s[i].Generalized_Message, s[i].file_name>>]

\* Variant: the duplicates are not dropped.
NovelWarningsNotDeduplicated(logs) == UnclassifiedWarnings(logs)

\* novel_warnings.drop_duplicates(subset=[Generalized_Message, file_name],
\* keep='first')
NovelWarnings(logs) ==
    LET w == UnclassifiedWarnings(logs)
    IN  DropDuplicates(w, MessageFileKey(w))

\* Variant: no lower end of the window.
PotentialCausesNoWindowStart(known_errors, warning) ==
    SelectSeq(known_errors, LAMBDA e : e.Timestamp <= warning.Timestamp)

\* known_errors[(Timestamp >= time_start) & (Timestamp <= time_end)]
PotentialCauses(known_errors, warning) ==
    SelectSeq(known_errors,
              LAMBDA e : /\ e.Timestamp >= warning.Timestamp - NOVEL_ANOMALY_WINDOW_MINUTES
                         /\ e.Timestamp <= warning.Timestamp)

\* The loop over novel_warnings.iterrows().
RECURSIVE NovelAlerts(_, _, _)
NovelAlerts(novel_warnings, known_errors, n) ==
    IF n > Len(novel_warnings) THEN <<>>
    ELSE LET warning == novel_warnings[n]
             potential_causes == PotentialCauses(known_errors, warning)
         IN  IF potential_causes = <<>>
             THEN NovelAlerts(novel_warnings, known_errors, n + 1)
             ELSE LET closest_error == potential_causes[Len(potential_causes)]
                  IN  <<[anomaly_id  |-> 0,
                         problem_id  |-> closest_error.final_problem_id,
                         file_name   |-> warning.file_name,
                         line_number |-> warning.line_number,
                         log         |-> warning.log]>>
                      \o NovelAlerts(novel_warnings, known_errors, n + 1)

\* The frames identify_novel_anomalies can return.
IdentifyNovelAnomaliesResults(logs) ==
    LET e == ClassifiedErrors(logs)
    IN  IF UnclassifiedWarnings(logs) = <<>> \/ e = <<>> THEN {<<>>}
        ELSE { NovelAlerts(NovelWarnings(logs), known_errors, 1) :
                 known_errors \in SortValues(e, TimestampOf(e)) }

(***************************************************************************)
(* Stage 10 of run_full_analysis_from_zip_bytes: the primary correlation   *)
(* table (orchestrator.py 378-491).                                        *)
(***************************************************************************)
\* The positions of the words of a raw log line the timestamp pattern
\* matches.
TimestampMatches(log) == {k \in DOMAIN log : log[k] \in TimestampWords}

\* Variant: the last match of the pattern is converted.
ExtractLastTimestamp(log) ==
    IF TimestampMatches(log) = {} THEN NaT
    ELSE ToDatetime(log[Max(TimestampMatches(log))])

\* extract_timestamp_for_sort: re.search finds the leftmost match of the
\* timestamp pattern in the raw log line, pd.to_datetime converts it.
ExtractTimestampForSort(log) ==
    IF TimestampMatches(log) = {} THEN NaT
    ELSE ToDatetime(log[Min(TimestampMatches(log))])

WarningTimeKey(d) ==
    [i \in DOMAIN d |-> ExtractTimestampForSort(d[i].warning_log)]

\* error_map.get(pid, {}): the ERROR details of the problem, or the empty
\* dict.
ErrorInfo(error_map, pid) ==
    IF pid \in DOMAIN error_map THEN error_map[pid] ELSE <<>>

\* The deduplicated WARNINGs with the ERROR details mapped onto them: a
\* column is None where the dict has no such key.
JoinedWarnings(logs, error_map) ==
    LET dw == DeduplicatedWarnings(logs)
    IN  [i \in DOMAIN dw |->
           [final_anomaly_id |-> dw[i].final_anomaly_id,
            final_problem_id |-> dw[i].final_problem_id,
            log              |-> dw[i].log,
            error_info       |-> ErrorInfo(error_map, dw[i].final_problem_id)]]

\* Variant: the rows without ERROR details are not dropped.
DropNaOmitted(joined) == joined

\* reportable_warnings.dropna(subset=['error_log'], inplace=True)
DropNa(joined) ==
    SelectSeq(joined, LAMBDA r : "log" \in DOMAIN r.error_info)

\* output_df.astype({..., '№ строки проблемы': int}) raises on a missing
\* line number.
AstypeRaises(kept) ==
    \E i \in DOMAIN kept : "line_number" \notin DOMAIN kept[i].error_info

\* The joined rows before the final sort: the deduplicated WARNINGs whose
\* problem has ERROR details.
CorrelationRows(logs, error_map) ==
    LET kept == DropNa(JoinedWarnings(logs, error_map))
    IN  [i \in DOMAIN kept |->
           [anomaly_id        |-> kept[i].final_anomaly_id,
            problem_id        |-> kept[i].final_problem_id,
            error_file_name   |-> kept[i].error_info.file_name,
            error_line_number |-> kept[i].error_info.line_number,
            error_log         |-> kept[i].error_info.log,
            warning_log       |-> kept[i].log]]

\* Variant: reportable_warnings shares its rows with classified_logs, and
\* dropna(inplace=True) removes them from the table.
ClassifiedLogsAfterCorrelationShared(logs) ==
    LET problems == {logs[i].final_problem_id :
                       i \in {k \in DOMAIN logs : /\ logs[k].Level = "ERROR"
                                                  /\ logs[k].final_problem_id # 0}}
    IN  SelectSeq(logs, LAMBDA r : \/ r.Level # "WARNING"
                                   \/ r.final_problem_id = 0
                                   \/ r.final_problem_id \in problems)

\* classified_logs after stage 10: reportable_warnings is a .copy() of the
\* selected rows, so the columns added to it and dropna(inplace=True) do
\* not reach the table.
ClassifiedLogsAfterCorrelation(logs) == logs

\* Stage 10 raises: the conversion of the columns fails.
CorrelationRaises(logs) ==
    /\ ReportableWarnings(logs) # <<>>
    /\ \E error_details \in ErrorDetails(logs) :
         AstypeRaises(DropNa(JoinedWarnings(logs, ErrorMap(error_details))))

\* The tables stage 10 can produce (no table without reportable WARNINGs).
CorrelationResults(logs) ==
    IF ReportableWarnings(logs) = <<>> THEN {<<>>}
    ELSE UNION { LET rows == CorrelationRows(logs, ErrorMap(error_details))
                 IN  SortValues(rows, WarningTimeKey(rows)) :
                 error_details \in ErrorDetails(logs) }

(***************************************************************************)
(* The inputs: a classified log table and an AnomalyTable.                 *)
(***************************************************************************)
\* What the classification can stamp on a record: an ERROR carries a problem
\* id or 0; a WARNING carries an anomaly id with its problem id, or 0 and 0.
Classifications ==
    {[Level |-> "ERROR", final_anomaly_id |-> 0, final_problem_id |-> p,
      Generalized_Message |-> "m1"] : p \in {0} \cup ProblemIds}
    \cup
    {[Level |-> "WARNING", final_anomaly_id |-> a, final_problem_id |-> p,
      Generalized_Message |-> "m1"] : a \in AnomalyIds, p \in ProblemIds}
    \cup
    {[Level |-> "WARNING", final_anomaly_id |-> 0, final_problem_id |-> 0,
      Generalized_Message |-> m] : m \in Messages}

\* The written form of the time t.
TimestampWord(t) ==
    CASE t = 0 -> "2024-01-15T10:30:00"
      [] t = 1 -> "2024-01-15T10:30:01"
      [] t = 2 -> "2024-01-15T10:30:02"
      [] t = 3 -> "2024-01-15T10:30:03"
      [] OTHER -> "2024-01-15T10:30:04"

\* The message of line i: the line's own word; the message of the first
\* line quotes the latest time.
MessageWord(i) ==
    IF i = 1 THEN TimestampWord(MaxTime)
    ELSE CASE i = 2 -> "w2" [] i = 3 -> "w3" [] i = 4 -> "w4" [] OTHER -> "w5"

\* Row i of the table: the record of one log line.  The raw line is the
\* timestamp, the level, the category and the message.
LogRecord(i, t, f, c) ==
    [Timestamp           |-> t,
     Level               |-> c.Level,
     final_anomaly_id    |-> c.final_anomaly_id,
     final_problem_id    |-> c.final_problem_id,
     Generalized_Message |-> c.Generalized_Message,
     file_name           |-> f,
     line_number         |-> i,
     log                 |-> <<TimestampWord(t), c.Level, "Database:", MessageWord(i)>>]

\* The AnomalyTable: anomaly 1 signals problems 1 and 2, problem 1 has the
\* anomalies 1 and 2, and the source repeats the row of anomaly 1 and
\* problem 2 (load_knowledge_base keeps every source row).
KnowledgeBase ==
    << [anomaly_id |-> 1, problem_id |-> 1], [anomaly_id |-> 2, problem_id |-> 1],
       [anomaly_id |-> 1, problem_id |-> 2], [anomaly_id |-> 1, problem_id |-> 2] >>

\* The timestamps of n records sorted by Timestamp, as process_all_logs_for_case
\* returns them.  Times are only compared and subtracted: the first record
\* fixes the origin.
SortedTimestamps(n) ==
    {t \in [1..n -> 0..MaxTime] :
        t[1] = 0 /\ \A i \in 1..(n - 1) : t[i] <= t[i + 1]}

\* The file names of n records.  Names are only compared: the first record
\* fixes the first name.
FileNamesOf(n) == {f \in [1..n -> FileNames] : f[1] = "a.txt"}

\* The classifications of n records.  Generalized_Message is only compared
\* among the WARNINGs with final_problem_id 0: the first of them fixes the
\* first message.
ClassificationsOf(n) ==
    {c \in [1..n -> Classifications] :
        \A i \in 1..n :
           (/\ c[i].Level = "WARNING" /\ c[i].final_problem_id = 0
            /\ \A j \in 1..(i - 1) :
                  ~ (c[j].Level = "WARNING" /\ c[j].final_problem_id = 0))
           => c[i].Generalized_Message = "m1"}

\* The parts of the state an operation does not use.
NoText == message = <<>> /\ generalized = <<>>
NoCatalog == kb_path = <<>> /\ kb_df = <<>> /\ problems_kb = <<>>
NoLine == raw_line = <<>> /\ parsed_line = <<>>
NoLogFiles == log_files = <<>> /\ logs_df = <<>> /\ NoLine
NoResult == final_reports = {} /\ results = {} /\ exception = "none"
NoManager == tasks = <<>> /\ lock = 0 /\ requests = <<>> /\ background = <<>>
NoLimiter ==
    request_log = <<>> /\ current_time = 0 /\ forwarded = <<>> /\ last_request = <<>>
NoTask ==
    /\ success = "none" /\ task_status = "processing" /\ progress = 0
    /\ NoManager /\ NoLimiter

Init ==
    /\ \E n \in 1..MaxLogs :
         \E t \in SortedTimestamps(n), f \in FileNamesOf(n),
            c \in ClassificationsOf(n) :
           classified_logs = [i \in 1..n |-> LogRecord(i, t[i], f[i], c[i])]
    /\ anomalies_kb = KnowledgeBase
    /\ impact_metrics = <<>>
    /\ report = <<>>
    /\ predictive_df = <<>>
    /\ novel_df = <<>>
    /\ output_df = <<>>
    /\ pc = "report"
    /\ NoText /\ NoCatalog /\ NoLogFiles /\ NoResult /\ NoTask

(***************************************************************************)
(* Stages 8 to 10 of run_full_analysis_from_zip_bytes.                     *)
(***************************************************************************)
\* Stage 8: generate_detailed_incident_report, which calls
\* calculate_impact_metrics and returns early when it has no rows.
GenerateDetailedIncidentReport ==
    /\ pc = "report"
    /\ \E impact \in CalculateImpactMetrics(classified_logs) :
         /\ impact_metrics' = impact
         /\ IF impact = <<>>
            THEN report' = <<>>
            ELSE \E error_details \in ErrorDetails(classified_logs) :
                   report' = IncidentEntries(impact, ErrorMap(error_details),
                                             1, FirstRank)
    /\ pc' = "predictive"
    /\ UNCHANGED <<classified_logs, anomalies_kb, predictive_df, novel_df, output_df>>
    /\ UNCHANGED <<textVars, kbVars, limiterVars, parserVars, runVars, taskVars>>

\* Stage 9: generate_predictive_alerts.
GeneratePredictiveAlerts ==
    /\ pc = "predictive"
    /\ predictive_df' \in GeneratePredictiveAlertsResults(classified_logs, anomalies_kb)
    /\ pc' = "novel"
    /\ UNCHANGED <<classified_logs, anomalies_kb, impact_metrics, report,
                   novel_df, output_df>>
    /\ UNCHANGED <<textVars, kbVars, limiterVars, parserVars, runVars, taskVars>>

\* Stage 9: identify_novel_anomalies.
IdentifyNovelAnomalies ==
    /\ pc = "novel"
    /\ novel_df' \in IdentifyNovelAnomaliesResults(classified_logs)
    /\ pc' = "correlation"
    /\ UNCHANGED <<classified_logs, anomalies_kb, impact_metrics, report,
                   predictive_df, output_df>>
    /\ UNCHANGED <<textVars, kbVars, limiterVars, parserVars, runVars, taskVars>>

\* Stage 10: the primary correlation table, stored as submit_report.xlsx
\* when there are reportable WARNINGs; an exception of the stage ends the
\* run in the except clause.
Correlation ==
    /\ pc = "correlation"
    /\ IF CorrelationRaises(classified_logs)
       THEN /\ exception' = "IntCastingNaNError"
            /\ results' = {"error"}
            /\ pc' = "returned"
            /\ UNCHANGED <<output_df, final_reports>>
       ELSE /\ output_df' \in CorrelationResults(classified_logs)
            /\ final_reports' =
                  IF ReportableWarnings(classified_logs) # <<>>
                  THEN final_reports \cup {"submit_report.xlsx"}
                  ELSE final_reports
            /\ pc' = "done"
            /\ UNCHANGED <<exception, results>>
    /\ classified_logs' = ClassifiedLogsAfterCorrelation(classified_logs)
    /\ UNCHANGED <<anomalies_kb, impact_metrics, report, predictive_df, novel_df>>
    /\ UNCHANGED <<textVars, kbVars, limiterVars, parserVars, taskVars>>

Next ==
    \/ GenerateDetailedIncidentReport
    \/ GeneratePredictiveAlerts
    \/ IdentifyNovelAnomalies
    \/ Correlation

Spec == Init /\ [][Next]_vars

(***************************************************************************)
(* The same stages on a burst of reportable WARNINGs and classified ERRORs *)
(* logged within one second: longer tables of the records that decide the  *)
(* impact ranking and the narrative.                                       *)
(***************************************************************************)
RankedClassifications ==
    {c \in Classifications : c.final_problem_id # 0}

InitRanking ==
    /\ \E n \in 1..MaxRankingLogs :
         \E f \in FileNamesOf(n), c \in [1..n -> RankedClassifications] :
           classified_logs = [i \in 1..n |-> LogRecord(i, 0, f[i], c[i])]
    /\ anomalies_kb = KnowledgeBase
    /\ impact_metrics = <<>>
    /\ report = <<>>
    /\ predictive_df = <<>>
    /\ novel_df = <<>>
    /\ output_df = <<>>
    /\ pc = "report"
    /\ NoText /\ NoCatalog /\ NoLogFiles /\ NoResult /\ NoTask

SpecRanking == InitRanking /\ [][Next]_vars

(***************************************************************************)
(* generalize_message applied to a message, and applied again to what it   *)
(* returned.                                                               *)
(***************************************************************************)
\* A message is made of at most MaxPieces of these pieces: a digit, letters
\* (one of them a hexadecimal digit, one upper case), punctuation, a space
\* and an IP address.
MessagePieces ==
    { <<"0">>, <<"7">>, <<"x">>, <<"f">>, <<"G">>, <<"_">>, <<".">>, <<"/">>,
      <<" ">>, <<"-">>, <<"1", ".", "2", ".", "3", ".", "4">> }

MessageTexts(max_pieces) ==
    UNION { {Concat(p) : p \in [1..n -> MessagePieces]} : n \in 0..max_pieces }

InitGeneralize ==
    /\ message \in MessageTexts(MaxPieces)
    /\ generalized = <<>>
    /\ pc = "generalize"
    /\ classified_logs = <<>> /\ anomalies_kb = <<>> /\ impact_metrics = <<>>
    /\ report = <<>> /\ predictive_df = <<>> /\ novel_df = <<>> /\ output_df = <<>>
    /\ NoCatalog /\ NoLogFiles /\ NoResult /\ NoTask

GeneralizeMessage ==
    /\ pc = "generalize"
    /\ generalized' = generalize_message(message)
    /\ pc' = "generalized"
    /\ UNCHANGED <<message, reportVars, kbVars, limiterVars, parserVars, runVars, taskVars>>

\* The value returned is generalized once more.
GeneralizeAgain ==
    /\ pc = "generalized"
    /\ message' = generalized
    /\ generalized' = generalize_message(generalized)
    /\ pc' = "generalized again"
    /\ UNCHANGED <<reportVars, kbVars, limiterVars, parserVars, runVars, taskVars>>

NextGeneralize == GeneralizeMessage \/ GeneralizeAgain

SpecGeneralize == InitGeneralize /\ [][NextGeneralize]_vars

(***************************************************************************)
(* load_knowledge_base called with a path.                                 *)
(***************************************************************************)
\* Extensions in lower and upper case, of other formats, and none.
Extensions ==
    { <<".", "c", "s", "v">>, <<".", "C", "S", "V">>, <<".", "x", "l", "s", "x">>,
      <<".", "X", "l", "s">>, <<".", "t", "x", "t">>, <<".", "c", "s">>, <<>> }

\* Two problem texts with the same generalized text.
ProblemTexts == { <<"d", " ", "1">>, <<"D", " ", "2">> }
AnomalyTexts == { <<"w", " ", "0", "x", "1">> }

CatalogRows ==
    [anomaly_id : AnomalyIds, Anomaly_Text : AnomalyTexts,
     problem_id : ProblemIds, Problem_Text : ProblemTexts]

Catalogs(max_rows) == UNION { [1..n -> CatalogRows] : n \in 0..max_rows }

InitKnowledgeBase ==
    /\ \E exists \in BOOLEAN, extension \in Extensions :
         /\ kb_path = [exists |-> exists, extension |-> extension]
         /\ IF exists THEN kb_df \in Catalogs(MaxCatalogRows) ELSE kb_df = <<>>
    /\ anomalies_kb = <<>>
    /\ problems_kb = <<>>
    /\ pc = "load"
    /\ classified_logs = <<>> /\ impact_metrics = <<>> /\ report = <<>>
    /\ predictive_df = <<>> /\ novel_df = <<>> /\ output_df = <<>>
    /\ NoText /\ NoLogFiles /\ NoResult /\ NoTask

LoadKnowledgeBase ==
    /\ pc = "load"
    /\ IF KnowledgeBaseError(kb_path) # "none"
       THEN /\ exception' = KnowledgeBaseError(kb_path)
            /\ pc' = "raised"
            /\ UNCHANGED <<anomalies_kb, problems_kb>>
       ELSE /\ anomalies_kb' = AnomalyTable(kb_df)
            /\ problems_kb' = ProblemTable(kb_df)
            /\ pc' = "loaded"
            /\ UNCHANGED exception
    /\ UNCHANGED <<classified_logs, impact_metrics, report, predictive_df,
                   novel_df, output_df, kb_path, kb_df, final_reports, results>>
    /\ UNCHANGED <<textVars, parserVars, taskVars, limiterVars>>

NextKnowledgeBase == LoadKnowledgeBase

SpecKnowledgeBase == InitKnowledgeBase /\ [][NextKnowledgeBase]_vars

(***************************************************************************)
(* process_all_logs_for_case called on a case directory.                   *)
(***************************************************************************)
\* The lines of the log files: a WARNING and an ERROR, an INFO line, a
\* WARNING that has the word INFO in its message, an ERROR whose message
\* ends with INFO, an ERROR whose timestamp is no date, a line without
\* category, and an empty line.
LogLines ==
    { <<"2024-01-15T10:30:00", "WARNING", "Database:", "timeout">>,
      <<"2024-01-15T10:30:01", "ERROR", "Database:", "timeout">>,
      <<"2024-01-15T10:30:00", "INFO", "Database:", "timeout">>,
      <<"2024-01-15T10:30:01", "WARNING", "Database:", "INFO", "timeout">>,
      <<"2024-01-15T10:30:00", "ERROR", "Database:", "INFO">>,
      <<"2024-13-45T10:30:00", "ERROR", "Database:", "timeout">>,
      <<"2024-01-15T10:30:00", "ERROR", "timeout">>,
      <<>> }

\* A file, its lines and the number of lines after which its read raises.
LogFile(file_name, lines, read_error) ==
    [file_name |-> file_name, lines |-> lines, read_error |-> read_error]

\* The directory holds at most MaxLines lines: glob returns a.txt and b.txt,
\* and the read of a file may raise after any number of its lines.
InitParser ==
    /\ \E na \in 0..MaxLines :
         \E nb \in 0..(MaxLines - na) :
           \E la \in [1..na -> LogLines], lb \in [1..nb -> LogLines],
              ea \in {NoReadError} \cup 0..na, eb \in {NoReadError} \cup 0..nb :
             log_files = << LogFile("a.txt", la, ea), LogFile("b.txt", lb, eb) >>
    /\ logs_df = <<>> /\ NoLine
    /\ pc = "parse"
    /\ classified_logs = <<>> /\ anomalies_kb = <<>> /\ impact_metrics = <<>>
    /\ report = <<>> /\ predictive_df = <<>> /\ novel_df = <<>> /\ output_df = <<>>
    /\ NoText /\ NoCatalog /\ NoResult /\ NoTask

ProcessAllLogsForCase ==
    /\ pc = "parse"
    /\ logs_df' \in ProcessAllLogsForCaseResults(log_files)
    /\ pc' = "parsed"
    /\ UNCHANGED <<log_files, raw_line, parsed_line, reportVars, textVars, kbVars, limiterVars,
                   runVars, taskVars>>

NextParser == ProcessAllLogsForCase

SpecParser == InitParser /\ [][NextParser]_vars

(***************************************************************************)
(* A whole run: run_full_analysis_from_zip_bytes from the point where the  *)
(* knowledge base file is located (orchestrator.py 190-539), called by     *)
(* process_zip_archive, called by process_task_background.                 *)
(***************************************************************************)
InitRun ==
    /\ pc = "load_model"
    /\ classified_logs = <<>> /\ anomalies_kb = <<>> /\ impact_metrics = <<>>
    /\ report = <<>> /\ predictive_df = <<>> /\ novel_df = <<>> /\ output_df = <<>>
    /\ NoText /\ NoCatalog /\ NoLogFiles /\ NoResult /\ NoTask

\* Stage 3: the device and the SentenceTransformer model.
LoadModel ==
    /\ pc = "load_model"
    /\ pc' = "load_knowledge_base"
    /\ UNCHANGED <<reportVars, textVars, kbVars, limiterVars, parserVars, runVars, taskVars>>

\* Stages 4 and 5: load_knowledge_base and the embeddings of its tables.
LoadKnowledgeBaseAndEmbeddings ==
    /\ pc = "load_knowledge_base"
    /\ anomalies_kb' = KnowledgeBase
    /\ pc' = "parse_logs"
    /\ UNCHANGED <<classified_logs, impact_metrics, report, predictive_df,
                   novel_df, output_df>>
    /\ UNCHANGED <<textVars, kbVars, limiterVars, parserVars, runVars, taskVars>>

\* The tables process_all_logs_for_case can hand to a run: at most
\* MaxRunLogs records of one file, sorted by Timestamp.
RunLogTables ==
    {<<>>} \cup
    UNION { { [i \in 1..n |-> [Timestamp |-> t[i], Level |-> level[i],
                               file_name |-> "a.txt", line_number |-> i]] :
              t \in SortedTimestamps(n), level \in [1..n -> {"WARNING", "ERROR"}] } :
            n \in 1..MaxRunLogs }

\* Stage 6: the logs are parsed; without a record the run returns the
\* message.
ParseLogs ==
    /\ pc = "parse_logs"
    /\ logs_df' \in RunLogTables
    /\ IF logs_df' = <<>>
       THEN results' = {"message"} /\ pc' = "returned"
       ELSE results' = results /\ pc' = "classify"
    /\ UNCHANGED <<reportVars, textVars, kbVars, limiterVars, log_files, raw_line, parsed_line, final_reports,
                   exception, taskVars>>

\* Stage 7: run_analysis_pipeline stamps a classification on every record.
ClassifyLogs ==
    /\ pc = "classify"
    /\ \E c \in [DOMAIN logs_df -> Classifications] :
         /\ \A i \in DOMAIN logs_df : c[i].Level = logs_df[i].Level
         /\ classified_logs' =
               [i \in DOMAIN logs_df |->
                   LogRecord(i, logs_df[i].Timestamp, logs_df[i].file_name, c[i])]
    /\ pc' = "report"
    /\ UNCHANGED <<anomalies_kb, impact_metrics, report, predictive_df,
                   novel_df, output_df>>
    /\ UNCHANGED <<textVars, kbVars, limiterVars, parserVars, runVars, taskVars>>

\* The predictive and the novel-anomaly alerts are stored if they have rows.
AddAdditionalReports ==
    /\ pc = "done"
    /\ final_reports' =
          final_reports
          \cup (IF predictive_df # <<>> THEN {"predictive_alerts.xlsx"} ELSE {})
          \cup (IF novel_df # <<>> THEN {"novel_anomalies.xlsx"} ELSE {})
    /\ pc' = "playbooks"
    /\ UNCHANGED <<reportVars, textVars, kbVars, limiterVars, parserVars, results, exception,
                   taskVars>>

\* Stage 11: generate_playbook_recommendations returns a CSV and a text,
\* each stored unless it is empty; the stage ends with the progress
\* callback called with 100.
GeneratePlaybooks ==
    /\ pc = "playbooks"
    /\ \E playbook_csv \in BOOLEAN, playbook_text \in BOOLEAN :
         final_reports' =
            final_reports
            \cup (IF playbook_csv THEN {"playbooks_recommendations.csv"} ELSE {})
            \cup (IF playbook_text THEN {"playbooks_recommendations.txt"} ELSE {})
    /\ progress' = 100
    /\ pc' = "return"
    /\ UNCHANGED <<reportVars, textVars, kbVars, limiterVars, parserVars, results, exception,
                   success, task_status, managerVars>>

\* return final_reports
ReturnReports ==
    /\ pc = "return"
    /\ results' = final_reports
    /\ pc' = "returned"
    /\ UNCHANGED <<reportVars, textVars, kbVars, limiterVars, parserVars, final_reports,
                   exception, taskVars>>

\* The positions inside the try block.
StagePositions ==
    {"load_model", "load_knowledge_base", "parse_logs", "classify", "report",
     "predictive", "novel", "correlation", "done", "playbooks"}

\* Variant: the error is added to the reports made so far.
StageExceptionKeepsReports ==
    /\ pc \in StagePositions
    /\ exception' = "Exception"
    /\ results' = final_reports \cup {"error"}
    /\ pc' = "returned"
    /\ UNCHANGED <<reportVars, textVars, kbVars, limiterVars, parserVars, final_reports, taskVars>>

\* A stage raises: the except clause returns the error alone.
StageException ==
    /\ pc \in StagePositions
    /\ exception' = "Exception"
    /\ results' = {"error"}
    /\ pc' = "returned"
    /\ UNCHANGED <<reportVars, textVars, kbVars, limiterVars, parserVars, final_reports, taskVars>>

\* process_zip_archive: the result of the run becomes (success, ...).
ProcessZipArchive ==
    /\ pc = "returned"
    /\ success' = IF "error" \in results THEN "False"
                  ELSE IF "submit_report.xlsx" \in results THEN "True"
                  ELSE "False"
    /\ pc' = "archived"
    /\ UNCHANGED <<reportVars, textVars, kbVars, limiterVars, parserVars, runVars, task_status,
                   progress, managerVars>>

\* process_task_background: complete_task with the success of the archive.
ProcessTaskBackground ==
    /\ pc = "archived"
    /\ task_status' = IF success = "True" THEN "completed" ELSE "failed"
    /\ progress' = IF success = "True" THEN 100 ELSE progress
    /\ pc' = "task done"
    /\ UNCHANGED <<reportVars, textVars, kbVars, limiterVars, parserVars, runVars, success,
                   managerVars>>

NextRun ==
    \/ LoadModel
    \/ LoadKnowledgeBaseAndEmbeddings
    \/ ParseLogs
    \/ ClassifyLogs
    \/ GenerateDetailedIncidentReport
    \/ GeneratePredictiveAlerts
    \/ IdentifyNovelAnomalies
    \/ Correlation
    \/ AddAdditionalReports
    \/ GeneratePlaybooks
    \/ ReturnReports
    \/ StageException
    \/ ProcessZipArchive
    \/ ProcessTaskBackground

SpecRun == InitRun /\ [][NextRun]_vars

(***************************************************************************)
(* parse_log_line called on one line.                                      *)
(***************************************************************************)
\* How a line starts: a timestamp, a timestamp with a space for its T, a
\* timestamp after a space, or nothing.
LinePrefixes ==
    { <<"2", "0", "2", "4", "-", "0", "1", "-", "1", "5", "T",
        "1", "0", ":", "3", "0", ":", "4", "5">>,
      <<"2", "0", "2", "4", "-", "0", "1", "-", "1", "5", " ",
        "1", "0", ":", "3", "0", ":", "4", "5">>,
      <<" ", "2", "0", "2", "4", "-", "0", "1", "-", "1", "5", "T",
        "1", "0", ":", "3", "0", ":", "4", "5">>,
      <<>> }

LineCharacters == {" ", "E", ":", "-"}

\* A prefix followed by at most max_tail characters.
LineTexts(max_tail) ==
    { prefix \o tail :
        prefix \in LinePrefixes,
        tail \in UNION { [1..n -> LineCharacters] : n \in 0..max_tail } }

InitParseLine ==
    /\ raw_line \in LineTexts(MaxTail)
    /\ parsed_line = <<>>
    /\ pc = "parse_line"
    /\ classified_logs = <<>> /\ anomalies_kb = <<>> /\ impact_metrics = <<>>
    /\ report = <<>> /\ predictive_df = <<>> /\ novel_df = <<>> /\ output_df = <<>>
    /\ log_files = <<>> /\ logs_df = <<>>
    /\ NoText /\ NoCatalog /\ NoResult /\ NoTask

ParseLogLine ==
    /\ pc = "parse_line"
    /\ parsed_line' = parse_line(raw_line)
    /\ pc' = "line parsed"
    /\ UNCHANGED <<raw_line, log_files, logs_df, reportVars, textVars, kbVars, limiterVars,
                   runVars, taskVars>>

NextParseLine == ParseLogLine

SpecParseLine == InitParseLine /\ [][NextParseLine]_vars

(***************************************************************************)
(* calculate_impact_metrics, generate_predictive_alerts,                   *)
(* identify_novel_anomalies and the correlation step called on the same    *)
(* tables, in any order.                                                   *)
(***************************************************************************)
\* The ProblemTable of the knowledge base.
ProblemsKnowledgeBase ==
    << [problem_id |-> 1, Problem_Text |-> "P1"],
       [problem_id |-> 2, Problem_Text |-> "P2"] >>

InitStages ==
    /\ \E n \in 1..MaxStageLogs :
         \E t \in SortedTimestamps(n), f \in FileNamesOf(n),
            c \in [1..n -> Classifications] :
           classified_logs = [i \in 1..n |-> LogRecord(i, t[i], f[i], c[i])]
    /\ anomalies_kb = KnowledgeBase
    /\ problems_kb = ProblemsKnowledgeBase
    /\ impact_metrics = <<>> /\ report = <<>> /\ predictive_df = <<>>
    /\ novel_df = <<>> /\ output_df = <<>>
    /\ pc = "stages"
    /\ kb_path = <<>> /\ kb_df = <<>>
    /\ NoText /\ NoLogFiles /\ NoResult /\ NoTask

CallCalculateImpactMetrics ==
    /\ pc = "stages"
    /\ impact_metrics' \in CalculateImpactMetrics(classified_logs)
    /\ UNCHANGED <<classified_logs, anomalies_kb, report, predictive_df, novel_df,
                   output_df, pc>>
    /\ UNCHANGED <<textVars, kbVars, limiterVars, parserVars, runVars, taskVars>>

CallGeneratePredictiveAlerts ==
    /\ pc = "stages"
    /\ predictive_df' \in GeneratePredictiveAlertsResults(classified_logs, anomalies_kb)
    /\ UNCHANGED <<classified_logs, anomalies_kb, impact_metrics, report, novel_df,
                   output_df, pc>>
    /\ UNCHANGED <<textVars, kbVars, limiterVars, parserVars, runVars, taskVars>>

CallIdentifyNovelAnomalies ==
    /\ pc = "stages"
    /\ novel_df' \in IdentifyNovelAnomaliesResults(classified_logs)
    /\ UNCHANGED <<classified_logs, anomalies_kb, impact_metrics, report,
                   predictive_df, output_df, pc>>
    /\ UNCHANGED <<textVars, kbVars, limiterVars, parserVars, runVars, taskVars>>

CallCorrelation ==
    /\ pc = "stages"
    /\ ~CorrelationRaises(classified_logs)
    /\ output_df' \in CorrelationResults(classified_logs)
    /\ classified_logs' = ClassifiedLogsAfterCorrelation(classified_logs)
    /\ UNCHANGED <<anomalies_kb, impact_metrics, report, predictive_df, novel_df, pc>>
    /\ UNCHANGED <<textVars, kbVars, limiterVars, parserVars, runVars, taskVars>>

NextStages ==
    \/ CallCalculateImpactMetrics
    \/ CallGeneratePredictiveAlerts
    \/ CallIdentifyNovelAnomalies
    \/ CallCorrelation

SpecStages == InitStages /\ [][NextStages]_vars

(***************************************************************************)
(* The task manager (api/v1/tasks.py) under batch-process requests         *)
(* (api/v1/routes.py).  The handlers and process_task_background run on    *)
(* one event loop and give way to each other at their awaits; a step here  *)
(* is the code between two awaits.                                         *)
(***************************************************************************)
\* storage.count_tasks_by_status(status)
CountTasksByStatus(status) ==
    Cardinality({t \in DOMAIN tasks : tasks[t].status = status})

\* get_current_load()['available_slots']
AvailableSlots ==
    LET total_active == CountTasksByStatus("processing") + CountTasksByStatus("pending")
    IN  IF MAX_CONCURRENT_TASKS - total_active > 0
        THEN MAX_CONCURRENT_TASKS - total_active ELSE 0

\* filename.lower().endswith('.zip')
IsZip(filename) == filename \in {"a.zip", "B.ZIP"}

\* The file lists of a request.
Uploads == UNION { [1..n -> {"a.zip", "b.txt"}] : n \in 1..MaxFiles }

\* The event loop thread is not blocked.
EventLoopRuns == \A t \in DOMAIN background : background[t] # "blocked"

\* start_task(task_id) under the lock: the storage after the call.
start_task(task_id) ==
    IF CountTasksByStatus("processing") >= MAX_CONCURRENT_TASKS
    THEN tasks
    ELSE [tasks EXCEPT ![task_id].status = "processing"]

InitTasks ==
    /\ pc = "serving"
    /\ tasks = <<>> /\ lock = 0 /\ background = <<>>
    /\ requests \in [1..MaxRequests -> [files : Uploads, state : {"received"}, i : {1}]]
    /\ success = "none" /\ task_status = "processing" /\ progress = 0 /\ NoLimiter
    /\ classified_logs = <<>> /\ anomalies_kb = <<>> /\ impact_metrics = <<>>
    /\ report = <<>> /\ predictive_df = <<>> /\ novel_df = <<>> /\ output_df = <<>>
    /\ NoText /\ NoCatalog /\ NoLogFiles /\ NoResult

\* batch_process up to its first await: the load is read and compared with
\* the number of files, and the name of the first file is tested.  With no
\* slot left the handler reads task_manager.MAX_CONCURRENT_TASKS, which
\* the manager does not have.
BatchProcessCheck(r) ==
    /\ pc = "serving" /\ EventLoopRuns
    /\ requests[r].state = "received"
    /\ requests' = [requests EXCEPT ![r].state =
          IF AvailableSlots = 0 THEN "500"
          ELSE IF Len(requests[r].files) > AvailableSlots THEN "429"
          ELSE IF ~IsZip(requests[r].files[1]) THEN "400"
          ELSE "reading"]
    /\ UNCHANGED <<tasks, lock, background, success, task_status, progress, pc>>
    /\ UNCHANGED <<reportVars, textVars, kbVars, limiterVars, parserVars, runVars>>

\* batch_process after the read of file i: create_task stores the task as
\* pending and process_task_background is scheduled; then the response is
\* returned, or the name of the next file is tested before its read.
BatchProcessCreateTask(r) ==
    /\ pc = "serving" /\ EventLoopRuns
    /\ requests[r].state = "reading"
    /\ tasks' = Append(tasks, [status |-> "pending", request |-> r])
    /\ background' = Append(background, "scheduled")
    /\ requests' = [requests EXCEPT ![r] =
          IF @.i = Len(@.files) THEN [@ EXCEPT !.state = "201"]
          ELSE IF ~IsZip(@.files[@.i + 1]) THEN [@ EXCEPT !.state = "400"]
          ELSE [@ EXCEPT !.i = @ + 1]]
    /\ UNCHANGED <<lock, success, task_status, progress, pc>>
    /\ UNCHANGED <<reportVars, textVars, kbVars, limiterVars, parserVars, runVars>>

\* process_task_background up to run_in_executor: start_task, whose result
\* is not looked at.
StartTaskInBackground(t) ==
    /\ pc = "serving" /\ EventLoopRuns
    /\ background[t] = "scheduled"
    /\ lock = 0
    /\ tasks' = start_task(t)
    /\ background' = [background EXCEPT ![t] = "executing"]
    /\ UNCHANGED <<lock, requests, success, task_status, progress, pc>>
    /\ UNCHANGED <<reportVars, textVars, kbVars, limiterVars, parserVars, runVars>>

\* process_task_background after the executor returned: complete_task takes
\* the lock, stores the status and calls _try_start_next_pending_task; with
\* a pending task that one calls start_task, which waits for the lock the
\* thread already holds.
CompleteTaskInBackground(t) ==
    /\ pc = "serving" /\ EventLoopRuns
    /\ background[t] = "executing"
    /\ lock = 0
    /\ \E ok \in BOOLEAN :
         tasks' = [tasks EXCEPT ![t].status = IF ok THEN "completed" ELSE "failed"]
    /\ IF \E p \in DOMAIN tasks' : tasks'[p].status = "pending"
       THEN lock' = t /\ background' = [background EXCEPT ![t] = "blocked"]
       ELSE lock' = 0 /\ background' = [background EXCEPT ![t] = "finished"]
    /\ UNCHANGED <<requests, success, task_status, progress, pc>>
    /\ UNCHANGED <<reportVars, textVars, kbVars, limiterVars, parserVars, runVars>>

NextTasks ==
    \/ \E r \in DOMAIN requests : BatchProcessCheck(r)
    \/ \E r \in DOMAIN requests : BatchProcessCreateTask(r)
    \/ \E t \in DOMAIN background : StartTaskInBackground(t)
    \/ \E t \in DOMAIN background : CompleteTaskInBackground(t)

SpecTasks == InitTasks /\ [][NextTasks]_vars

(***************************************************************************)
(* RateLimitMiddleware (api/v1/middleware.py).  dispatch has no await      *)
(* between reading the clock and counting the request: it is one step.     *)
(***************************************************************************)
ClientIps == {"10.0.0.1", "10.0.0.2"}

\* The entries of an IP that are still in the window at current_time.
EntriesInWindow(entries) ==
    SelectSeq(entries, LAMBDA timestamp : current_time - timestamp < window_seconds)

\* Variant: the limit is passed only by more than max_requests.
LimitExceeded(total_requests) == total_requests > max_requests

\* if total_requests >= self.max_requests
LimitReached(total_requests) == total_requests >= max_requests

InitRateLimit ==
    /\ pc = "dispatch"
    /\ request_log = [ip \in ClientIps |-> <<>>]
    /\ forwarded = [ip \in ClientIps |-> <<>>]
    /\ current_time = 0
    /\ last_request = [number |-> 0, client_ip |-> "none", api |-> FALSE,
                       status_code |-> 0]
    /\ classified_logs = <<>> /\ anomalies_kb = <<>> /\ impact_metrics = <<>>
    /\ report = <<>> /\ predictive_df = <<>> /\ novel_df = <<>> /\ output_df = <<>>
    /\ success = "none" /\ task_status = "processing" /\ progress = 0 /\ NoManager
    /\ NoText /\ NoCatalog /\ NoLogFiles /\ NoResult

\* dispatch of a request of client_ip; api tells whether its path starts
\* with /api/v1.  A forwarded request is answered by the application (200).
Dispatch(client_ip, api) ==
    /\ pc = "dispatch"
    /\ last_request.number < MaxDispatched
    /\ IF ~api
       THEN /\ last_request' = [number |-> last_request.number + 1,
                                client_ip |-> client_ip, api |-> api,
                                status_code |-> 200]
            /\ UNCHANGED <<request_log, forwarded>>
       ELSE LET kept == EntriesInWindow(request_log[client_ip])
                total_requests == Len(kept)
            IN  IF LimitReached(total_requests)
                THEN /\ request_log' = [request_log EXCEPT ![client_ip] = kept]
                     /\ last_request' = [number |-> last_request.number + 1,
                                         client_ip |-> client_ip, api |-> api,
                                         status_code |-> 429]
                     /\ UNCHANGED forwarded
                ELSE /\ request_log' = [request_log EXCEPT
                                          ![client_ip] = Append(kept, current_time)]
                     /\ forwarded' = [forwarded EXCEPT
                                        ![client_ip] = Append(@, current_time)]
                     /\ last_request' = [number |-> last_request.number + 1,
                                         client_ip |-> client_ip, api |-> api,
                                         status_code |-> 200]
    /\ UNCHANGED <<current_time, pc>>
    /\ UNCHANGED <<reportVars, textVars, kbVars, parserVars, runVars, taskVars>>

\* Time passes.
Tick ==
    /\ pc = "dispatch"
    /\ current_time < MaxClock
    /\ current_time' = current_time + 1
    /\ UNCHANGED <<request_log, forwarded, last_request, pc>>
    /\ UNCHANGED <<reportVars, textVars, kbVars, parserVars, runVars, taskVars>>

NextRateLimit ==
    \/ \E client_ip \in ClientIps, api \in BOOLEAN : Dispatch(client_ip, api)
    \/ Tick

SpecRateLimit == InitRateLimit /\ [][NextRateLimit]_vars

(***************************************************************************)
(* Vocabulary of the properties.                                           *)
(***************************************************************************)
Logs == Range(classified_logs)

IsReportableWarning(r) == r.Level = "WARNING" /\ r.final_problem_id # 0
IsUnclassifiedWarning(r) == r.Level = "WARNING" /\ r.final_problem_id = 0
IsClassifiedError(r) == r.Level = "ERROR" /\ r.final_problem_id # 0

\* The reportable WARNINGs with anomaly a and problem p.
WarningsOfPair(a, p) ==
    {r \in Logs : IsReportableWarning(r) /\ r.final_anomaly_id = a
                                         /\ r.final_problem_id = p}

\* The classified ERRORs of problem p.
ErrorsOfProblem(p) ==
    {r \in Logs : IsClassifiedError(r) /\ r.final_problem_id = p}

Earliest(S) == {r \in S : \A q \in S : r.Timestamp <= q.Timestamp}

CorrelationDone == pc = "done"
PredictiveDone == pc \in {"novel", "correlation", "done"}
NovelDone == pc \in {"correlation", "done"}
ReportDone == pc # "report"

(***************************************************************************)
(* C1.  The primary correlation table has at most one row for each pair    *)
(* (final_anomaly_id, final_problem_id) of the reportable WARNINGs, and    *)
(* that row carries the raw log of a WARNING of the pair that has the      *)
(* earliest timestamp among the WARNINGs of the pair.                      *)
(***************************************************************************)
C1_OneRowPerPairEarliestWarning ==
    /\ \A i, j \in DOMAIN output_df :
         (/\ output_df[i].anomaly_id = output_df[j].anomaly_id
          /\ output_df[i].problem_id = output_df[j].problem_id) => i = j
    /\ \A i \in DOMAIN output_df :
         \E w \in Earliest(WarningsOfPair(output_df[i].anomaly_id,
                                          output_df[i].problem_id)) :
            output_df[i].warning_log = w.log

\* A row whose pair occurs in two WARNINGs of different timestamps.
C1_Witness ==
    /\ CorrelationDone
    /\ \E i \in DOMAIN output_df :
         \E w1, w2 \in WarningsOfPair(output_df[i].anomaly_id,
                                      output_df[i].problem_id) :
            w1.Timestamp < w2.Timestamp

(***************************************************************************)
(* C2.  Every row of the primary correlation table carries as root-cause   *)
(* file, line number and raw log the data of an ERROR of the row's problem *)
(* (non-zero) that has the earliest timestamp among the ERRORs of that     *)
(* problem.                                                                *)
(***************************************************************************)
C2_RootCauseIsEarliestError ==
    \A i \in DOMAIN output_df :
       /\ output_df[i].problem_id # 0
       /\ \E e \in Earliest(ErrorsOfProblem(output_df[i].problem_id)) :
            /\ output_df[i].error_file_name = e.file_name
            /\ output_df[i].error_line_number = e.line_number
            /\ output_df[i].error_log = e.log

\* A row whose problem has two ERRORs of different timestamps.
C2_Witness ==
    /\ CorrelationDone
    /\ \E i \in DOMAIN output_df :
         \E e1, e2 \in ErrorsOfProblem(output_df[i].problem_id) :
            e1.Timestamp < e2.Timestamp

(***************************************************************************)
(* C3.  Problem id 0 is never reported: no row of the primary correlation  *)
(* table, no incident of the impact ranking or of the narrative, no        *)
(* predictive alert and no novel-anomaly alert has problem id 0.           *)
(***************************************************************************)
C3_ProblemZeroNeverReported ==
    /\ \A i \in DOMAIN output_df : output_df[i].problem_id # 0
    /\ \A i \in DOMAIN impact_metrics : impact_metrics[i].problem_id # 0
    /\ \A i \in DOMAIN report : report[i].problem_id # 0
    /\ \A i \in DOMAIN predictive_df : predictive_df[i].problem_id # 0
    /\ \A i \in DOMAIN novel_df : novel_df[i].problem_id # 0

\* All four outputs are non-empty and the logs hold a record with problem
\* id 0.
C3_Witness ==
    /\ CorrelationDone
    /\ output_df # <<>> /\ impact_metrics # <<>>
    /\ predictive_df # <<>> /\ novel_df # <<>>
    /\ \E r \in Logs : r.final_problem_id = 0

(***************************************************************************)
(* C4.  For every problem of the impact ranking, anomaly_count is the      *)
(* number of deduplicated reportable WARNINGs of the problem (one per      *)
(* anomaly id, its first occurrence), unique_systems_affected the number   *)
(* of distinct file names among those first occurrences, and Impact_Score  *)
(* their product.                                                          *)
(***************************************************************************)
\* Positions of the first occurrences of the pairs of problem p.
FirstOccurrences(p) ==
    {i \in DOMAIN classified_logs :
        /\ IsReportableWarning(classified_logs[i])
        /\ classified_logs[i].final_problem_id = p
        /\ \A j \in 1..(i - 1) :
             ~ (/\ IsReportableWarning(classified_logs[j])
                /\ classified_logs[j].final_problem_id = p
                /\ classified_logs[j].final_anomaly_id =
                       classified_logs[i].final_anomaly_id)}

C4_ImpactMetricsOfDeduplicatedWarnings ==
    \A n \in DOMAIN impact_metrics :
       LET m == impact_metrics[n]
           first == FirstOccurrences(m.problem_id)
       IN  /\ m.anomaly_count = Cardinality(first)
           /\ m.unique_systems_affected =
                  Cardinality({classified_logs[i].file_name : i \in first})
           /\ m.Impact_Score = m.anomaly_count * m.unique_systems_affected

\* A problem with a repeated pair, whose repeat is the problem's only WARNING
\* in a second file: both columns differ from the counts before deduplication.
C4_Witness ==
    /\ ReportDone
    /\ \E n \in DOMAIN impact_metrics :
         /\ impact_metrics[n].anomaly_count = 2
         /\ impact_metrics[n].unique_systems_affected = 1
         /\ Cardinality({r \in Logs : /\ IsReportableWarning(r)
                                      /\ r.final_problem_id =
                                             impact_metrics[n].problem_id}) = 3
         /\ Cardinality({r.file_name : r \in
                           {q \in Logs : /\ IsReportableWarning(q)
                                         /\ q.final_problem_id =
                                                impact_metrics[n].problem_id}}) = 2

(***************************************************************************)
(* C5.  No predictive alert of a problem p names an anomaly id that is the *)
(* final_anomaly_id of a WARNING with final_problem_id = p.                *)
(***************************************************************************)
C5_NoAlertForOccurredAnomaly ==
    \A i \in DOMAIN predictive_df :
       \A r \in Logs :
          ~ (/\ r.Level = "WARNING"
             /\ r.final_problem_id = predictive_df[i].problem_id
             /\ r.final_anomaly_id = predictive_df[i].predicted_anomaly_id)

\* An alert is emitted for a problem one of whose AnomalyTable rows is held
\* back because its anomaly occurred.
C5_Witness ==
    /\ PredictiveDone
    /\ \E i \in DOMAIN predictive_df :
         \E k \in DOMAIN anomalies_kb :
            /\ anomalies_kb[k].problem_id = predictive_df[i].problem_id
            /\ anomalies_kb[k].anomaly_id # predictive_df[i].predicted_anomaly_id
            /\ WarningsOfPair(anomalies_kb[k].anomaly_id,
                              anomalies_kb[k].problem_id) # {}

(***************************************************************************)
(* C6.  Every novel-anomaly alert is for a WARNING w with final_problem_id *)
(* 0 and carries the problem id of a classified ERROR that has the largest *)
(* timestamp among the classified ERRORs with                              *)
(* w.Timestamp - window <= Timestamp <= w.Timestamp; a WARNING without     *)
(* such an ERROR has no alert.                                             *)
(***************************************************************************)
\* The classified ERRORs in the window that ends at w.
InWindow(w) ==
    {e \in Logs : /\ IsClassifiedError(e)
                  /\ w.Timestamp - NOVEL_ANOMALY_WINDOW_MINUTES <= e.Timestamp
                  /\ e.Timestamp <= w.Timestamp}

Latest(S) == {r \in S : \A q \in S : q.Timestamp <= r.Timestamp}

\* The alert is about record w.
AlertOf(a, w) ==
    /\ a.file_name = w.file_name
    /\ a.line_number = w.line_number
    /\ a.log = w.log

C6_AlertCarriesClosestPrecedingError ==
    /\ \A i \in DOMAIN novel_df :
         \E w \in Logs :
            /\ IsUnclassifiedWarning(w)
            /\ AlertOf(novel_df[i], w)
            /\ \E e \in Latest(InWindow(w)) :
                 novel_df[i].problem_id = e.final_problem_id
    /\ \A w \in Logs :
         (IsUnclassifiedWarning(w) /\ InWindow(w) = {}) =>
            \A i \in DOMAIN novel_df : ~ AlertOf(novel_df[i], w)

\* An alert whose window holds ERRORs of two problems at two times.
C6_Witness ==
    /\ NovelDone
    /\ \E i \in DOMAIN novel_df :
         \E w \in Logs :
            /\ IsUnclassifiedWarning(w) /\ AlertOf(novel_df[i], w)
            /\ \E e1, e2 \in InWindow(w) :
                 /\ e1.Timestamp < e2.Timestamp
                 /\ e1.final_problem_id # e2.final_problem_id

(***************************************************************************)
(* C7.  As claimed: the incidents returned by calculate_impact_metrics are *)
(* sorted strictly descending by Impact_Score.  Two problems can have the  *)
(* same score, so this fails.                                              *)
(***************************************************************************)
C7_StrictlyDescending ==
    \A n \in 1..(Len(impact_metrics) - 1) :
       impact_metrics[n].Impact_Score > impact_metrics[n + 1].Impact_Score

(***************************************************************************)
(* C7, amended.  The incidents returned by calculate_impact_metrics are    *)
(* sorted descending by Impact_Score: of two consecutive incidents the     *)
(* earlier one has a greater or equal Impact_Score.                        *)
(***************************************************************************)
C7_Descending ==
    \A n \in 1..(Len(impact_metrics) - 1) :
       impact_metrics[n].Impact_Score >= impact_metrics[n + 1].Impact_Score

\* The sort moved a problem: the greater problem id has the greater score
\* and comes first.
C7_Witness ==
    /\ ReportDone
    /\ Len(impact_metrics) = 2
    /\ impact_metrics[1].problem_id > impact_metrics[2].problem_id
    /\ impact_metrics[1].Impact_Score > impact_metrics[2].Impact_Score

(***************************************************************************)
(* C8.  As claimed: in the incident narrative ranks are 1-based and, of    *)
(* two problems with the same impact score, the one whose first reportable *)
(* WARNING appears earlier in the sorted logs has the smaller rank.  The   *)
(* groups are ordered by problem id and then sorted by score alone, so     *)
(* this fails.                                                             *)
(***************************************************************************)
\* Position of the first reportable WARNING of problem p.
FirstSeen(p) ==
    CHOOSE i \in DOMAIN classified_logs :
       /\ IsReportableWarning(classified_logs[i])
       /\ classified_logs[i].final_problem_id = p
       /\ \A j \in 1..(i - 1) :
            ~ (/\ IsReportableWarning(classified_logs[j])
               /\ classified_logs[j].final_problem_id = p)

RanksOneBased == \A n \in DOMAIN report : report[n].rank = n

C8_TiesByFirstSeen ==
    /\ RanksOneBased
    /\ \A m, n \in DOMAIN report :
         (/\ report[m].Impact_Score = report[n].Impact_Score
          /\ FirstSeen(report[m].problem_id) < FirstSeen(report[n].problem_id))
         => report[m].rank < report[n].rank

(***************************************************************************)
(* C8, amended.  In the incident narrative ranks are 1-based and           *)
(* consecutive and follow the order calculate_impact_metrics returned:     *)
(* descending by impact score, a problem never ranked before one of        *)
(* greater score; among problems of the same score the rank does not       *)
(* depend on which was seen first.                                         *)
(***************************************************************************)
\* Position of problem p in the impact ranking.
ImpactPosition(p) ==
    CHOOSE i \in DOMAIN impact_metrics : impact_metrics[i].problem_id = p

C8_RanksFollowImpactOrder ==
    /\ RanksOneBased
    /\ \A m, n \in DOMAIN report :
         m < n =>
           /\ report[m].Impact_Score >= report[n].Impact_Score
           /\ ImpactPosition(report[m].problem_id) < ImpactPosition(report[n].problem_id)

\* A narrative of two incidents where rank 1 went to the problem that was
\* seen last.
C8_Witness ==
    /\ ReportDone
    /\ Len(report) = 2
    /\ FirstSeen(report[1].problem_id) > FirstSeen(report[2].problem_id)

(***************************************************************************)
(* C9.  For every problem p # 0 of some ERROR and every AnomalyTable row   *)
(* of p whose anomaly id is not that of a WARNING of p there is exactly    *)
(* one predictive alert (as many alerts name the problem and the anomaly   *)
(* as the table has such rows), and every alert of p carries the timestamp *)
(* and the raw log of an ERROR of p with the earliest timestamp.           *)
(***************************************************************************)
C9_OneAlertPerMissingAnomaly ==
    PredictiveDone =>
    /\ \A p \in {r.final_problem_id : r \in {q \in Logs : IsClassifiedError(q)}} :
         \A k \in DOMAIN anomalies_kb :
            (/\ anomalies_kb[k].problem_id = p
             /\ \A r \in Logs :
                  ~ (/\ r.Level = "WARNING" /\ r.final_problem_id = p
                     /\ r.final_anomaly_id = anomalies_kb[k].anomaly_id))
            => Cardinality({i \in DOMAIN predictive_df :
                              /\ predictive_df[i].problem_id = p
                              /\ predictive_df[i].predicted_anomaly_id =
                                     anomalies_kb[k].anomaly_id})
               = Cardinality({j \in DOMAIN anomalies_kb :
                                /\ anomalies_kb[j].problem_id = p
                                /\ anomalies_kb[j].anomaly_id =
                                       anomalies_kb[k].anomaly_id})
    /\ \A i \in DOMAIN predictive_df :
         \E e \in Earliest(ErrorsOfProblem(predictive_df[i].problem_id)) :
            /\ predictive_df[i].trigger_time = e.Timestamp
            /\ predictive_df[i].trigger_log = e.log

\* Two alerts for a row the table repeats, triggered by a problem that has
\* ERRORs at two times.
C9_Witness ==
    /\ PredictiveDone
    /\ \E i, j \in DOMAIN predictive_df :
         /\ i # j
         /\ predictive_df[i].problem_id = predictive_df[j].problem_id
         /\ predictive_df[i].predicted_anomaly_id = predictive_df[j].predicted_anomaly_id
         /\ \E e1, e2 \in ErrorsOfProblem(predictive_df[i].problem_id) :
              e1.Timestamp < e2.Timestamp

(***************************************************************************)
(* C10.  identify_novel_anomalies emits at most one alert for each pair    *)
(* (Generalized_Message, file_name) of the WARNINGs with final_problem_id  *)
(* 0, and an alert carries the line number and the raw log of the first    *)
(* occurrence of its pair in the sorted logs.                              *)
(***************************************************************************)
\* Position i holds the first unclassified WARNING of its pair.
FirstOfMessageAndFile(i) ==
    /\ IsUnclassifiedWarning(classified_logs[i])
    /\ \A j \in 1..(i - 1) :
         ~ (/\ IsUnclassifiedWarning(classified_logs[j])
            /\ classified_logs[j].Generalized_Message =
                   classified_logs[i].Generalized_Message
            /\ classified_logs[j].file_name = classified_logs[i].file_name)

C10_OneAlertPerMessageAndFile ==
    /\ \A n \in DOMAIN novel_df :
         \E i \in DOMAIN classified_logs :
            /\ FirstOfMessageAndFile(i)
            /\ novel_df[n].file_name = classified_logs[i].file_name
            /\ novel_df[n].line_number = classified_logs[i].line_number
            /\ novel_df[n].log = classified_logs[i].log
    /\ \A m, n \in DOMAIN novel_df :
         \A i, j \in DOMAIN classified_logs :
            (/\ AlertOf(novel_df[m], classified_logs[i])
             /\ AlertOf(novel_df[n], classified_logs[j])
             /\ classified_logs[i].Generalized_Message =
                    classified_logs[j].Generalized_Message
             /\ classified_logs[i].file_name = classified_logs[j].file_name)
            => m = n

\* An alert whose pair is repeated by a later WARNING that also has a
\* classified ERROR in its window.
C10_Witness ==
    /\ NovelDone
    /\ \E n \in DOMAIN novel_df :
         \E i, j \in DOMAIN classified_logs :
            /\ i < j
            /\ AlertOf(novel_df[n], classified_logs[i])
            /\ IsUnclassifiedWarning(classified_logs[j])
            /\ classified_logs[j].Generalized_Message =
                   classified_logs[i].Generalized_Message
            /\ classified_logs[j].file_name = classified_logs[i].file_name
            /\ InWindow(classified_logs[j]) # {}

(***************************************************************************)
(* C14.  generalize_message is idempotent: generalizing the value it       *)
(* returned returns that value again.  The replacement text "file path"    *)
(* put after "0x" makes a hexadecimal value for the second application, so *)
(* this fails.                                                             *)
(***************************************************************************)
C14_GeneralizeIdempotent ==
    pc = "generalized again" => generalized = message

(***************************************************************************)
(* C15.  The value generalize_message returns holds no digit and no        *)
(* punctuation character, the underscore included.  Digits next to a       *)
(* letter or an underscore are no standalone number and the underscore is  *)
(* a word character, so this fails.                                        *)
(***************************************************************************)
C15_NoDigitNoPunctuation ==
    pc = "generalized" =>
       \A i \in DOMAIN generalized : generalized[i] \in Letters \cup Whitespace

(***************************************************************************)
(* C18.  load_knowledge_base raises FileNotFoundError for every path that  *)
(* does not exist, whatever its extension, raises ValueError for every     *)
(* existing path whose lower-cased extension is not .csv, .xlsx or .xls,   *)
(* and returns no table in both cases.                                     *)
(***************************************************************************)
IsSupported(extension) ==
    \E e \in SupportedExtensions :
       /\ Len(e) = Len(extension)
       /\ \A i \in DOMAIN e : ToLower(extension)[i] = e[i]

C18_MissingOrUnsupportedCatalogFails ==
    pc # "load" =>
       /\ ~ kb_path.exists =>
            /\ pc = "raised" /\ exception = "FileNotFoundError"
            /\ anomalies_kb = <<>> /\ problems_kb = <<>>
       /\ (kb_path.exists /\ ~ IsSupported(kb_path.extension)) =>
            /\ pc = "raised" /\ exception = "ValueError"
            /\ anomalies_kb = <<>> /\ problems_kb = <<>>

\* A path that does not exist and has an extension that is not read.
C18_Witness ==
    /\ pc = "raised"
    /\ ~ kb_path.exists
    /\ ~ IsSupported(kb_path.extension)

(***************************************************************************)
(* C19.  The AnomalyTable load_knowledge_base returns has one row per row  *)
(* of the catalog, in the catalog's order and with its ids and anomaly     *)
(* text, also when rows repeat an anomaly id; the ProblemTable holds each  *)
(* distinct triple (problem_id, generalized problem text, raw problem      *)
(* text) of the catalog exactly once, and nothing else.                    *)
(***************************************************************************)
\* Row j of the ProblemTable is the problem entry of row i of the catalog.
ProblemEntryOf(j, i) ==
    /\ problems_kb[j].problem_id = kb_df[i].problem_id
    /\ problems_kb[j].Problem_Text = kb_df[i].Problem_Text
    /\ problems_kb[j].Generalized_Problem = generalize_message(kb_df[i].Problem_Text)

C19_AnomalyRowsKeptProblemRowsDistinct ==
    pc = "loaded" =>
       /\ Len(anomalies_kb) = Len(kb_df)
       /\ \A i \in DOMAIN kb_df :
            /\ anomalies_kb[i].anomaly_id = kb_df[i].anomaly_id
            /\ anomalies_kb[i].problem_id = kb_df[i].problem_id
            /\ anomalies_kb[i].Anomaly_Text = kb_df[i].Anomaly_Text
       /\ \A i \in DOMAIN kb_df :
            Cardinality({j \in DOMAIN problems_kb : ProblemEntryOf(j, i)}) = 1
       /\ \A j \in DOMAIN problems_kb : \E i \in DOMAIN kb_df : ProblemEntryOf(j, i)

\* A catalog of three rows that repeats an anomaly id and a problem entry
\* and has one problem id with two raw texts of the same generalized text.
C19_Witness ==
    /\ pc = "loaded"
    /\ Len(kb_df) = 3 /\ Len(problems_kb) = 2
    /\ \E i, j \in DOMAIN anomalies_kb :
         i # j /\ anomalies_kb[i].anomaly_id = anomalies_kb[j].anomaly_id
    /\ /\ problems_kb[1].problem_id = problems_kb[2].problem_id
       /\ problems_kb[1].Generalized_Problem = problems_kb[2].Generalized_Problem
       /\ problems_kb[1].Problem_Text # problems_kb[2].Problem_Text

(***************************************************************************)
(* C12.  process_all_logs_for_case returns a record for a line it read if  *)
(* and only if the line's parsed level is WARNING or ERROR and its         *)
(* timestamp parses.  A WARNING or ERROR line with the word INFO inside    *)
(* its message is skipped by the test ' INFO ' in line, so this fails.     *)
(***************************************************************************)
\* logs_df holds a record of line i of the file.
HasRecord(file, i) ==
    \E n \in DOMAIN logs_df :
       /\ logs_df[n].file_name = file.file_name
       /\ logs_df[n].line_number = i

C12_RecordIffWarningOrErrorWithTimestamp ==
    pc = "parsed" =>
       \A k \in DOMAIN log_files :
          \A i \in 1..LinesRead(log_files[k]) :
             LET parsed == parse_log_line(log_files[k].lines[i])
             IN  HasRecord(log_files[k], i) <=>
                    /\ parsed.level \in {"WARNING", "ERROR"}
                    /\ ToDatetime(parsed.timestamp) # NaT

(***************************************************************************)
(* C13.  The records process_all_logs_for_case returns are in ascending    *)
(* order of timestamp, and records of equal timestamp keep the order in    *)
(* which they were read: file order, then line order.  sort_values runs    *)
(* with its default kind, which is not stable, so this fails.              *)
(***************************************************************************)
\* Position of the file of a record in the order of reading.
FilePosition(r) ==
    CHOOSE k \in DOMAIN log_files : log_files[k].file_name = r.file_name

ReadBefore(r, q) ==
    \/ FilePosition(r) < FilePosition(q)
    \/ FilePosition(r) = FilePosition(q) /\ r.line_number < q.line_number

C13_AscendingAndStable ==
    pc = "parsed" =>
       \A m, n \in DOMAIN logs_df :
          m < n =>
            /\ logs_df[m].Timestamp <= logs_df[n].Timestamp
            /\ logs_df[m].Timestamp = logs_df[n].Timestamp =>
                  ReadBefore(logs_df[m], logs_df[n])

(***************************************************************************)
(* C20.  If the read of a log file raises, process_all_logs_for_case still *)
(* returns every record of every other file, and the file whose read       *)
(* failed has no record in the output.  The records appended before the    *)
(* read raised stay in all_logs, so this fails.                            *)
(***************************************************************************)
\* Line i of the file is one the loop appends and the conversion keeps.
YieldsRecord(file, i) ==
    LET line   == file.lines[i]
        parsed == parse_log_line(line)
    IN  /\ line # <<>> /\ ~ ContainsInfo(line)
        /\ parsed.level \in {"WARNING", "ERROR"}
        /\ ToDatetime(parsed.timestamp) # NaT

C20_FailedFileSkippedOthersKept ==
    pc = "parsed" =>
       \A k \in DOMAIN log_files :
          IF log_files[k].read_error # NoReadError
          THEN \A n \in DOMAIN logs_df : logs_df[n].file_name # log_files[k].file_name
          ELSE \A i \in DOMAIN log_files[k].lines :
                  YieldsRecord(log_files[k], i) => HasRecord(log_files[k], i)

(***************************************************************************)
(* C11.  A reportable WARNING whose final_problem_id is the problem id of  *)
(* no classified ERROR has no row in the primary correlation table, and it *)
(* does not make the run end in the error result: a run returns the error  *)
(* only when a stage raised an exception of its own, also when every       *)
(* reportable WARNING is of this kind.                                     *)
(***************************************************************************)
C11_UnmatchedWarningDroppedWithoutError ==
    /\ \A w \in Logs :
         (IsReportableWarning(w) /\ ErrorsOfProblem(w.final_problem_id) = {}) =>
            \A i \in DOMAIN output_df : output_df[i].problem_id # w.final_problem_id
    /\ "error" \in results => exception = "Exception"

\* A run that returned its reports although none of its reportable WARNINGs
\* has a classified ERROR: the table is stored without a row.
C11_Witness ==
    /\ pc = "returned" /\ exception = "none"
    /\ \E w \in Logs : IsReportableWarning(w)
    /\ \A w \in Logs :
         IsReportableWarning(w) => ErrorsOfProblem(w.final_problem_id) = {}
    /\ "submit_report.xlsx" \in results
    /\ output_df = <<>>

(***************************************************************************)
(* C16.  A run whose log files hold no WARNING or ERROR record ends in an  *)
(* outcome its callers can tell apart from a failed run: it is not         *)
(* reported with the error result, nor with success False by               *)
(* process_zip_archive, nor with the task status failed.  The message      *)
(* result has no submit_report.xlsx, so process_zip_archive returns False  *)
(* and the task is completed as failed: this fails.                        *)
(***************************************************************************)
C16_EmptyRunToldApartFromFailure ==
    (pc = "task done" /\ "message" \in results) =>
       /\ "error" \notin results
       /\ success # "False"
       /\ task_status # "failed"

(***************************************************************************)
(* C17.  If a stage after the knowledge base file was located raises an    *)
(* exception, run_full_analysis_from_zip_bytes returns the error entry     *)
(* alone: no report an earlier stage of the run stored is part of the      *)
(* result.                                                                 *)
(***************************************************************************)
C17_ExceptionReturnsErrorAlone ==
    exception # "none" => results = {"error"}

\* The playbook stage raised after the correlation table had been stored.
C17_Witness ==
    /\ pc = "returned" /\ exception = "Exception"
    /\ "submit_report.xlsx" \in final_reports
    /\ output_df # <<>>

\* The groups of the ways a line splits into timestamp, white space, level,
\* white space, category, colon, white space and message.
GrammarGroups(line) ==
    IF ~MatchesTimestamp(line) THEN {}
    ELSE LET L == Len(line)
             Ends(i, C) == { j \in (i + 1)..(L + 1) : \A k \in i..(j - 1) : line[k] \in C }
         IN  UNION { UNION { UNION { UNION {
                { << SubSeq(line, 1, 19), SubSeq(line, a, b - 1),
                     SubSeq(line, c, d - 1), SubSeq(line, e, L) >> :
                  e \in IF d <= L /\ line[d] = ":" THEN Ends(d + 1, Whitespace) ELSE {} } :
                d \in Ends(c, Range(line) \ {":"}) } :
                c \in Ends(b, Whitespace) } :
                b \in Ends(a, WordChars) } :
                a \in Ends(20, Whitespace) }

(***************************************************************************)
(* C21.  parse_log_line returns the four captured fields of a line that    *)
(* matches the grammar timestamp, white space, level, white space,         *)
(* category, colon, white space, message, and (None, UNKNOWN, UNKNOWN,     *)
(* line) with the whole line as message for a line that does not match.    *)
(***************************************************************************)
C21_GroupsOrUnknownWithWholeLine ==
    pc = "line parsed" =>
       IF GrammarGroups(raw_line) # {}
       THEN parsed_line \in GrammarGroups(raw_line)
       ELSE parsed_line = << None, UNKNOWN, UNKNOWN, raw_line >>

\* A line with two colons was parsed into its four fields.
C21_Witness ==
    /\ pc = "line parsed"
    /\ parsed_line[1] # None
    /\ parsed_line[4] # <<>>
    /\ \E i \in DOMAIN parsed_line[4] : parsed_line[4][i] = ":"

\* The record of the classified-log table whose raw line is log.
RecordOfLog(log) == CHOOSE r \in Logs : r.log = log

(***************************************************************************)
(* C22.  The rows of the primary correlation table are in ascending order  *)
(* of the timestamp found in the WARNING raw log of each row, and that     *)
(* re-parsed timestamp equals the Timestamp the parser stored for the      *)
(* same WARNING record.                                                    *)
(***************************************************************************)
C22_AscendingByReparsedWarningTime ==
    pc = "done" =>
       /\ \A i, j \in DOMAIN output_df :
             i < j => ExtractTimestampForSort(output_df[i].warning_log)
                         <= ExtractTimestampForSort(output_df[j].warning_log)
       /\ \A i \in DOMAIN output_df :
             ExtractTimestampForSort(output_df[i].warning_log)
                = RecordOfLog(output_df[i].warning_log).Timestamp

\* Two rows of different WARNING times, the earlier WARNING quoting a later
\* time in its message.
C22_Witness ==
    /\ pc = "done"
    /\ Len(output_df) >= 2
    /\ RecordOfLog(output_df[1].warning_log).Timestamp
          < RecordOfLog(output_df[2].warning_log).Timestamp
    /\ Cardinality(TimestampMatches(output_df[1].warning_log)) = 2

C27_ProgressHundredOnlyOnSuccess ==
    (pc = "task done" /\ progress = 100) =>
       success # "False" /\ task_status # "failed"

(***************************************************************************)
(* C24.  Under every interleaving of batch-process requests and background *)
(* task executions the number of active tasks (status pending or           *)
(* processing) never exceeds MAX_CONCURRENT_TASKS.  Two handlers that read *)
(* the load before either has created its tasks both pass: this fails.     *)
(***************************************************************************)
C24_ActiveTasksWithinLimit ==
    CountTasksByStatus("pending") + CountTasksByStatus("processing")
       <= MAX_CONCURRENT_TASKS

(***************************************************************************)
(* C26.  Every call of complete_task returns, also when a task is pending  *)
(* at the moment another task completes: no call waits for the manager's   *)
(* lock for ever.  complete_task holds the lock, which is not re-entrant,  *)
(* while start_task asks for it: this fails.                               *)
(***************************************************************************)
C26_CompleteTaskReturns ==
    \A t \in DOMAIN background : background[t] # "blocked"

(***************************************************************************)
(* C28.  Every status change of a stored task is pending to processing,    *)
(* processing to completed or processing to failed.  A task whose          *)
(* start_task was refused is completed from pending: this fails.           *)
(***************************************************************************)
C28_StatusChangesAreLegal ==
    [][\A t \in DOMAIN tasks :
          tasks'[t].status # tasks[t].status =>
             <<tasks[t].status, tasks'[t].status>> \in
                { <<"pending", "processing">>, <<"processing", "completed">>,
                  <<"processing", "failed">> }]_vars

(***************************************************************************)
(* C29.  A request batch_process rejects with status 400 for a file        *)
(* without a .zip name leaves the stored tasks unchanged: no task was      *)
(* created for the files before the rejected one.  The name is tested in   *)
(* the loop that creates the tasks: this fails.                            *)
(***************************************************************************)
C29_RejectedRequestCreatesNoTask ==
    \A r \in DOMAIN requests :
       requests[r].state = "400" =>
          \A t \in DOMAIN tasks : tasks[t].request # r

\* The number of requests of an IP forwarded in the window that ends at
\* time t: after t - window_seconds, up to t.
ForwardedInWindow(ip, t) ==
    Cardinality({k \in DOMAIN forwarded[ip] :
                   t - forwarded[ip][k] < window_seconds /\ forwarded[ip][k] <= t})

C30_CorrelatedWarningHasAlertForItsPair ==
    NovelDone =>
    \A w \in Logs :
       (IsUnclassifiedWarning(w) /\ InWindow(w) # {}) =>
       \E n \in DOMAIN novel_df :
          \E v \in Logs :
             /\ IsUnclassifiedWarning(v)
             /\ v.Generalized_Message = w.Generalized_Message
             /\ v.file_name = w.file_name
             /\ AlertOf(novel_df[n], v)

====
